---- MODULE Spec2Model ----
(***************************************************************************)
(* State-machine model of the HARVEY chat backend (isa-group/A-MINT-repo): *)
(* the ChatController session store and its HTTP handlers, the             *)
(* GeminiService two-pass model protocol, the ToolOrchestrationService     *)
(* dispatcher, the FileManager uploads directory and the SchedulerService  *)
(* sweep.                                                                  *)
(*                                                                         *)
(* Granularity.  The process is a single Node.js event loop.  A handler    *)
(* runs without interleaving until it awaits real I/O.  The only real I/O  *)
(* awaited by the modelled handlers are the two generateContent calls of   *)
(* GeminiService and the HTTP calls of the analysis / transformation       *)
(* clients.  FileManager.deleteFile and saveUploadedFile have synchronous  *)
(* bodies (existsSync / unlinkSync / statSync), so awaiting them resumes   *)
(* on the microtask queue before any other request callback can run:       *)
(* uploadFile, deleteSession and cleanupInactiveSessions are therefore one *)
(* atomic action each, while a sendMessage turn is split at its awaits.    *)
(***************************************************************************)
EXTENDS Integers, Sequences, FiniteSets, TLC

\* ---------------------------------------------------------------- bounds
MaxSessions == 2      \* session ids handed out by createSession
MaxFiles == 2         \* files ever written to the uploads directory
MaxTurns == 2         \* sendMessage requests ever issued
MaxTicks == 2         \* clock advances

SessionIds == 1..MaxSessions
FileIds == 1..MaxFiles
TurnIds == 1..MaxTurns

\* --------------------------------------------------------- program values
\* cleanupInactiveSessions: const inactiveThreshold = 24 * 60 * 60 * 1000
inactiveThreshold == 24 * 60 * 60 * 1000

\* server.ts builds one ChatController, chatRoutes.ts builds another.
Controllers == {"routes", "server"}
\* The controller every route of chatRoutes.ts is bound to.
RoutesController == "routes"
\* The controller server.ts hands to new SchedulerService(...).
ServerController == "server"

\* One GeminiService per ChatController plus the module singleton
\* `export const geminiService = new GeminiService()`.
Services == Controllers \cup {"singleton"}

\* Document contents, abstracted to the set of top-level keys they hold.
PricingDoc == {"saasName", "version", "features", "plans"}
MinimalDoc == {"saasName", "plans"}
Contents == {PricingDoc, MinimalDoc}
NoBytes == {"<absent>"}
\* A path of the uploads directory that holds no file.  nameParts are the
\* '_'-separated parts of a transformation_<taskId>_<fileId>.yaml file name
\* after the prefix; an uploaded file (multer: file-<time>-<random>) has none.
\* mtime is the time of the write (fs.statSync(filePath).mtime).
NoFile == [bytes |-> NoBytes, nameParts |-> <<>>, mtime |-> 0]

\* What a client may upload: multer's fileFilter admits .yaml / .yml only.
\* File names are a stem and an extension, so that the extension test of
\* isPricingYamlFile is computed and not assumed.
NoName == [stem |-> "", ext |-> ""]
UploadInputs ==
  { [originalName |-> [stem |-> "pricing", ext |-> ".yaml"], content |-> PricingDoc],
    [originalName |-> [stem |-> "plans", ext |-> ".YML"], content |-> MinimalDoc] }

\* session.pricingContext === undefined
NoContext == [content |-> {}, fileName |-> NoName, fileId |-> 0]
\* getSystemPrompt(undefined, undefined): no CURRENT PRICING FILE CONTEXT section
NoDocument == [content |-> {}, fileName |-> NoName]

\* this.sessions.get(id) === undefined
NoSession == [live |-> FALSE, lastActivity |-> 0, messages |-> <<>>,
              files |-> <<>>, jobs |-> <<>>, pricingContext |-> NoContext]

VARIABLES
  now,          \* Date.now(), in milliseconds
  ticks,        \* clock advances so far
  scheduler,    \* the controller the SchedulerService was constructed with
  sessions,     \* ChatController.sessions of each controller
  nextSession,  \* sessions created so far (ids are fresh)
  model,        \* GeminiService.model of each service: its system preamble
  disk,         \* uploads directory: file id -> bytes
  nextFile,     \* files written so far (uuids are fresh)
  taskUrlMap,   \* ToolOrchestrationService.taskUrlMap: task id -> original URL
  turns,        \* sendMessage requests: position and locals of each
  last,         \* the last step taken and the response it sent, if any
  hook          \* the frontend's useAsyncJob hook: its state, timers and polls

vars == <<now, ticks, scheduler, sessions, nextSession, model, disk, nextFile,
          taskUrlMap, turns, last, hook>>

\* ------------------------------------------------------------ pure helpers
\* String.prototype.toLowerCase on the extensions the model uses.
toLowerCase(ext) ==
  CASE ext = ".YAML" -> ".yaml"
    [] ext = ".YML" -> ".yml"
    [] OTHER -> ext

\* GeminiService.getSystemPrompt: the pricing section is present only when
\* pricingContent is truthy; it embeds the content and the file name.
getSystemPrompt(pricingContent, pricingFileName) ==
  IF pricingContent # {}
  THEN [content |-> pricingContent, fileName |-> pricingFileName]
  ELSE NoDocument

\* Where the keys of a document stand in its text.  Keys come in the order of
\* KeyOrder, one line each, except the features section of LongDoc, a
\* document with a long feature list, which fills sixty lines.
KeyOrder == <<"saasName", "version", "features", "usageLimits", "plans">>
LongDoc == {"saasName", "version", "features", "usageLimits", "plans"}
IndexOf(key) == CHOOSE i \in 1..Len(KeyOrder) : KeyOrder[i] = key
lineOf(bytes, key) ==
  LET before == {k \in bytes : IndexOf(k) < IndexOf(key)} IN
  1 + Cardinality(before)
    + (IF bytes = LongDoc /\ "features" \in before THEN 59 ELSE 0)

\* content.split('\n').slice(0, 50): the keys within the sampled lines.
sampleLines == 50
firstLines(bytes) == {k \in bytes : lineOf(bytes, k) <= sampleLines}

\* ChatController.isPricingYamlFile
pricingIndicators == {"version", "features", "plans"}
isPricingYamlFile(originalName, bytes) ==
  LET fileExtension == toLowerCase(originalName.ext) IN
  IF fileExtension # ".yaml" /\ fileExtension # ".yml" THEN FALSE
  ELSE IF bytes = NoBytes THEN FALSE      \* readFileSync throws: caught, false
  ELSE Cardinality({i \in pricingIndicators : i \in firstLines(bytes)}) >= 3

\* FileManager.validateYamlFile
requiredFields == {"saasName", "plans"}
validateYamlFile(bytes) ==
  bytes # NoBytes /\ \A field \in requiredFields : field \in bytes

\* A loop that stops before the last file of the session.
deleteFilesButLast(d, files) ==
  [f \in FileIds |->
     IF \E i \in 1..Len(files) - 1 : files[i].id = f THEN NoFile ELSE d[f]]

\* FileManager.deleteFile over a list of session files: unlink every path.
deleteFiles(d, files) ==
  [f \in FileIds |->
     IF \E i \in 1..Len(files) : files[i].id = f THEN NoFile ELSE d[f]]

FileIdsOf(files) == {files[i].id : i \in 1..Len(files)}

\* The record of a step: which operation ran and what it answered.
Event(op, sid, status) ==
  [op |-> op, sid |-> sid, status |-> status, turn |-> 0, fileId |-> 0,
   hasContext |-> FALSE, fileName |-> NoName, removed |-> {}, unlinked |-> {},
   content |-> FALSE, error |-> "", lastActivity |-> 0, messages |-> <<>>,
   files |-> <<>>, activeJobsCount |-> 0]

Store == sessions[RoutesController]

\* A store whose entries alias one session object: a write through one id
\* shows under every live id.
putSessionAliased(sessionId, session) ==
  [sessions EXCEPT ![RoutesController] =
     [s \in SessionIds |->
        IF s = sessionId \/ sessions[RoutesController][s].live THEN session
        ELSE sessions[RoutesController][s]]]

\* A handler mutates, in place, the one session object that
\* this.sessions.get(sessionId) returned.
putSession(sessionId, session) ==
  [sessions EXCEPT ![RoutesController][sessionId] = session]

\* The comparison with the boundary on the wrong side.
isInactiveAtThreshold(session, at) == at - session.lastActivity >= inactiveThreshold

\* cleanupInactiveSessions: inactiveTime > inactiveThreshold
isInactive(session, at) == at - session.lastActivity > inactiveThreshold

\* A context replaced in part only: the file's content without its name
\* and id.
contextOfMixed(sessionFile, pricingContent) ==
  [content |-> pricingContent, fileName |-> NoName, fileId |-> 0]

\* updatePricingContext: the context object built from the session file
contextOf(sessionFile, pricingContent) ==
  [content |-> pricingContent, fileName |-> sessionFile.originalName,
   fileId |-> sessionFile.id]

\* A report derived from the session's files instead of its context.
pricingContextInfoFromFiles(session) ==
  [hasContext |-> session.files # <<>>,
   fileName |-> IF session.files # <<>> THEN session.files[1].originalName ELSE NoName]

\* getPricingContextInfo: hasContext and fileName of the response
pricingContextInfo(session) ==
  [hasContext |-> session.pricingContext # NoContext,
   fileName |-> session.pricingContext.fileName]
Live(c) == {s \in SessionIds : sessions[c][s].live}

\* ------------------------------------------------- messages and tool calls
\* A URL argument: whether `new URL(url)` accepts it, and its hostname.
NoUrl == [valid |-> FALSE, hostname |-> ""]
PricingPage == [valid |-> TRUE, hostname |-> "example.com"]
\* Task ids of the transformation service, as their '_'-separated parts.
TaskIds == {<<101>>, <<100, 1>>}
NoTask == <<>>

\* FunctionCall.arguments; a parameter the model left out is falsy.
NoArgs == [pricingFileId |-> 0, operation |-> "", solver |-> "", jobId |-> "",
           url |-> NoUrl, taskId |-> NoTask, topic |-> ""]
NoCall == [name |-> "", arguments |-> NoArgs]
Call(name, arguments) == [name |-> name, arguments |-> arguments]

\* The tool-call requests the model collaborator emits in this model.
ToolRequests ==
  { Call("getPricingStrategyAdvice", [NoArgs EXCEPT !.topic = "freemium"]),
    Call("getPricingStrategyAdvice", NoArgs),
    Call("getPricingAnalysisJobStatus", [NoArgs EXCEPT !.jobId = "job-1"]),
    Call("getPricingSummary", [NoArgs EXCEPT !.pricingFileId = 1]),
    Call("noSuchTool", NoArgs) }

\* What a tool handler returns to GeminiService.
NoResult == [error |-> FALSE, message |-> "", subject |-> "", fileSource |-> "",
             savedFile |-> 0, contextAutoUpdated |-> FALSE, data |-> ""]
Success(message) == [NoResult EXCEPT !.message = message]
Failure(message, subject) ==
  [NoResult EXCEPT !.error = TRUE, !.message = message, !.subject = subject]

\* MessagePart: exactly one of text / functionCall / functionResponse is set.
NoText == [by |-> "", turn |-> 0]
TextPart(by, turn) ==
  [text |-> [by |-> by, turn |-> turn], functionCall |-> NoCall,
   functionResponse |-> NoResult]
CallPart(fc) == [text |-> NoText, functionCall |-> fc, functionResponse |-> NoResult]
ResponsePart(fc, result) ==
  [text |-> NoText, functionCall |-> [NoCall EXCEPT !.name = fc.name],
   functionResponse |-> result]
Message(role, parts) == [role |-> role, parts |-> parts]

\* A sendMessage request that has not arrived yet.  responses counts the
\* responses written on its res (res.status(...).json(...)), used lists the
\* model each of its generateContent calls was made on.
IdleTurn ==
  [pc |-> "idle", sid |-> 0, chatHistory |-> <<>>, files |-> <<>>,
   pricingContext |-> NoContext, modelToUse |-> NoDocument, fc |-> NoCall,
   path |-> 0, toolResult |-> NoResult, calls |-> 0, status |-> 0,
   requested |-> <<>>, executed |-> <<>>, second |-> NoCall, at |-> 0,
   sent |-> <<>>, responses |-> 0, used |-> <<>>]

\* The useAsyncJob hook before its component has rendered with a jobId:
\* the states of useState and useRef, the interval timers that are set, the
\* fetchStatus calls made so far, and the status of each job at the server.
MaxJobs == 2          \* jobIds the hook is rendered with, one after the other
MaxPolls == 3         \* fetchStatus calls ever made
JobIds == 1..MaxJobs
PollIds == 1..MaxPolls
NoPoll == [state |-> "none", jobId |-> 0, data |-> ""]
IdleHook ==
  [jobId |-> 0, status |-> "", result |-> FALSE, error |-> FALSE,
   intervalRef |-> 0, intervals |-> {},
   polls |-> [p \in PollIds |-> NoPoll],
   job |-> [j \in JobIds |-> "PENDING"]]

\* ----------------------------------------------------------------- Init
InitWith(ctl) ==
  /\ now = 0
  /\ ticks = 0
  /\ scheduler = ctl
  /\ sessions = [c \in Controllers |-> [s \in SessionIds |-> NoSession]]
  /\ nextSession = 0
  /\ model = [g \in Services |-> getSystemPrompt({}, NoName)]
  /\ disk = [f \in FileIds |-> NoFile]
  /\ nextFile = 0
  /\ taskUrlMap = [t \in TaskIds |-> NoUrl]
  /\ turns = [t \in TurnIds |-> IdleTurn]
  /\ last = Event("init", 0, 0)
  /\ hook = IdleHook

\* ------------------------------------------------- ChatController handlers
\* A createSession that leaves the shared model as the last upload set it.
createSessionKeepingModel ==
  /\ nextSession < MaxSessions
  /\ LET sessionId == nextSession + 1 IN
     /\ sessions' = putSession(sessionId,
                       [live |-> TRUE, lastActivity |-> now, messages |-> <<>>,
                        files |-> <<>>, jobs |-> <<>>, pricingContext |-> NoContext])
     /\ nextSession' = sessionId
     /\ last' = Event("createSession", sessionId, 200)
  /\ UNCHANGED <<now, ticks, scheduler, hook, model, disk, nextFile, taskUrlMap, turns>>

\* POST /session
createSession ==
  /\ nextSession < MaxSessions
  /\ LET sessionId == nextSession + 1 IN
     /\ sessions' = putSession(sessionId,
                       [live |-> TRUE, lastActivity |-> now, messages |-> <<>>,
                        files |-> <<>>, jobs |-> <<>>, pricingContext |-> NoContext])
     /\ nextSession' = sessionId
     \* this.geminiService.clearPricingContext() -> initializeModel()
     /\ model' = [model EXCEPT ![RoutesController] = getSystemPrompt({}, NoName)]
     /\ last' = Event("createSession", sessionId, 200)
  /\ UNCHANGED <<now, ticks, scheduler, hook, disk, nextFile, taskUrlMap, turns>>

\* POST /session/:sessionId/upload
uploadFile(sessionId, file) ==
  /\ nextFile < MaxFiles
  /\ LET session == Store[sessionId]
         fileId == nextFile + 1
         sessionFile == [id |-> fileId, originalName |-> file.originalName]
     IN
     IF ~session.live
     THEN \* multer's temporary file is unlinked again
          /\ last' = Event("uploadFile", sessionId, 404)
          /\ UNCHANGED <<sessions, model, disk, nextFile>>
     ELSE /\ disk' = [disk EXCEPT ![fileId] = [bytes |-> file.content, nameParts |-> <<>>, mtime |-> now]]
          /\ nextFile' = fileId
          /\ sessions' = putSession(sessionId,
                            [session EXCEPT !.files = Append(@, sessionFile),
                                            !.lastActivity = now])
          \* this.geminiService.updatePricingContext(content, originalname)
          /\ model' = IF isPricingYamlFile(file.originalName, file.content)
                       THEN [model EXCEPT ![RoutesController] =
                               getSystemPrompt(file.content, file.originalName)]
                       ELSE model
          /\ last' = [Event("uploadFile", sessionId, 201) EXCEPT !.fileId = fileId]
  /\ UNCHANGED <<now, ticks, scheduler, hook, nextSession, taskUrlMap, turns>>

\* PUT /session/:sessionId/pricing-context   (fileId 0: no fileId in the body)
updatePricingContext(sessionId, fileId) ==
  /\ LET session == Store[sessionId]
         found == {i \in 1..Len(session.files) : session.files[i].id = fileId}
     IN
     IF fileId = 0 THEN
          /\ last' = [Event("updatePricingContext", sessionId, 400) EXCEPT !.fileId = fileId]
          /\ UNCHANGED sessions
     ELSE IF ~session.live \/ found = {} \/ disk[fileId].bytes = NoBytes THEN
          /\ last' = [Event("updatePricingContext", sessionId, 404) EXCEPT !.fileId = fileId]
          /\ UNCHANGED sessions
     ELSE LET sessionFile == session.files[CHOOSE i \in found : TRUE] IN
          /\ sessions' = putSession(sessionId,
                            [session EXCEPT
                               !.pricingContext = contextOf(sessionFile, disk[fileId].bytes),
                               !.lastActivity = now])
          /\ last' = [Event("updatePricingContext", sessionId, 200) EXCEPT !.fileId = fileId]
  /\ UNCHANGED <<now, ticks, scheduler, hook, nextSession, model, disk, nextFile, taskUrlMap, turns>>

\* DELETE /session/:sessionId/pricing-context
clearPricingContext(sessionId) ==
  /\ LET session == Store[sessionId] IN
     IF ~session.live THEN
          /\ last' = Event("clearPricingContext", sessionId, 404)
          /\ UNCHANGED sessions
     ELSE /\ sessions' = putSession(sessionId,
                            [session EXCEPT !.pricingContext = NoContext,
                                            !.lastActivity = now])
          /\ last' = Event("clearPricingContext", sessionId, 200)
  /\ UNCHANGED <<now, ticks, scheduler, hook, nextSession, model, disk, nextFile, taskUrlMap, turns>>

\* GET /session/:sessionId/pricing-context
getPricingContextInfo(sessionId) ==
  /\ LET session == Store[sessionId] IN
     IF ~session.live THEN last' = Event("getPricingContextInfo", sessionId, 404)
     ELSE last' = [Event("getPricingContextInfo", sessionId, 200) EXCEPT
                     !.hasContext = pricingContextInfo(session).hasContext,
                     !.fileName = pricingContextInfo(session).fileName]
  /\ UNCHANGED <<now, ticks, scheduler, hook, sessions, nextSession, model, disk,
                 nextFile, taskUrlMap, turns>>

\* GET /session/:sessionId: the session's lastActivity, its counts and the
\* number of its jobs that are running or pending.
activeJobs(session) ==
  {i \in 1..Len(session.jobs) : session.jobs[i].status \in {"running", "pending"}}
getSession(sessionId) ==
  /\ LET session == Store[sessionId] IN
     IF ~session.live THEN last' = Event("getSession", sessionId, 404)
     ELSE last' = [Event("getSession", sessionId, 200) EXCEPT
                     !.lastActivity = session.lastActivity,
                     !.activeJobsCount = Cardinality(activeJobs(session))]
  /\ UNCHANGED <<now, ticks, scheduler, hook, sessions, nextSession, model, disk,
                 nextFile, taskUrlMap, turns>>

\* GET /session/:sessionId/messages
getMessages(sessionId) ==
  /\ LET session == Store[sessionId] IN
     IF ~session.live THEN last' = Event("getMessages", sessionId, 404)
     ELSE last' = [Event("getMessages", sessionId, 200) EXCEPT
                     !.messages = session.messages]
  /\ UNCHANGED <<now, ticks, scheduler, hook, sessions, nextSession, model, disk,
                 nextFile, taskUrlMap, turns>>

\* GET /session/:sessionId/files
getSessionFiles(sessionId) ==
  /\ LET session == Store[sessionId] IN
     IF ~session.live THEN last' = Event("getSessionFiles", sessionId, 404)
     ELSE last' = [Event("getSessionFiles", sessionId, 200) EXCEPT
                     !.files = session.files]
  /\ UNCHANGED <<now, ticks, scheduler, hook, sessions, nextSession, model, disk,
                 nextFile, taskUrlMap, turns>>

\* ChatController.deleteSessionFile (a public handler; chatRoutes.ts binds no
\* route to it): the file is unlinked and spliced out of session.files.
deleteSessionFile(sessionId, fileId) ==
  /\ LET session == Store[sessionId]
         found == {i \in 1..Len(session.files) : session.files[i].id = fileId}
     IN
     IF ~session.live \/ found = {} THEN
          /\ last' = [Event("deleteSessionFile", sessionId, 404) EXCEPT !.fileId = fileId]
          /\ UNCHANGED <<sessions, disk>>
     ELSE LET fileIndex == CHOOSE i \in found : \A j \in found : i <= j IN
          /\ disk' = [disk EXCEPT ![fileId] = NoFile]
          /\ sessions' = putSession(sessionId,
                            [session EXCEPT
                               !.files = SubSeq(@, 1, fileIndex - 1)
                                           \o SubSeq(@, fileIndex + 1, Len(@)),
                               !.lastActivity = now])
          /\ last' = [Event("deleteSessionFile", sessionId, 200) EXCEPT
                         !.fileId = fileId, !.unlinked = {fileId}]
  /\ UNCHANGED <<now, ticks, scheduler, hook, nextSession, model, nextFile, taskUrlMap, turns>>

\* DELETE /session/:sessionId
deleteSession(sessionId) ==
  /\ LET session == Store[sessionId] IN
     IF ~session.live THEN
          /\ last' = Event("deleteSession", sessionId, 404)
          /\ UNCHANGED <<sessions, disk>>
     ELSE /\ disk' = deleteFiles(disk, session.files)
          /\ sessions' = [sessions EXCEPT ![RoutesController][sessionId] = NoSession]
          /\ last' = [Event("deleteSession", sessionId, 200) EXCEPT
                         !.unlinked = FileIdsOf(session.files)]
  /\ UNCHANGED <<now, ticks, scheduler, hook, nextSession, model, nextFile, taskUrlMap, turns>>

\* ChatController.cleanupInactiveSessions, run by the SchedulerService's cron
\* callback on the controller it was constructed with.
cleanupInactiveSessions ==
  LET store == sessions[scheduler]
      sessionsToDelete ==
        {s \in SessionIds : store[s].live /\ isInactive(store[s], now)}
      unlinked == UNION {FileIdsOf(store[s].files) : s \in sessionsToDelete}
  IN
  /\ disk' = [f \in FileIds |-> IF f \in unlinked THEN NoFile ELSE disk[f]]
  /\ sessions' = [sessions EXCEPT ![scheduler] =
                    [s \in SessionIds |->
                       IF s \in sessionsToDelete THEN NoSession ELSE store[s]]]
  /\ last' = [Event("cleanupInactiveSessions", 0, 0) EXCEPT
                 !.removed = sessionsToDelete, !.unlinked = unlinked]
  /\ UNCHANGED <<now, ticks, scheduler, hook, nextSession, model, nextFile, taskUrlMap, turns>>

\* FileManager.cleanupOldFiles(olderThanHours = 24): every file of the
\* uploads directory whose mtime lies before the cutoff is unlinked.
olderThanHours == 24
cleanupOldFiles ==
  LET cutoffTime == now - olderThanHours * 60 * 60 * 1000
      old == {f \in FileIds : disk[f].bytes # NoBytes /\ disk[f].mtime < cutoffTime}
  IN
  /\ disk' = [f \in FileIds |-> IF f \in old THEN NoFile ELSE disk[f]]
  /\ last' = [Event("cleanupOldFiles", 0, 0) EXCEPT !.unlinked = old]
  /\ UNCHANGED <<now, ticks, scheduler, hook, sessions, nextSession, model, nextFile,
                 taskUrlMap, turns>>

\* Time passes: an instant, or a whole inactivity threshold.
Tick(d) ==
  /\ ticks < MaxTicks
  /\ now' = now + d
  /\ ticks' = ticks + 1
  /\ last' = Event("tick", 0, 0)
  /\ UNCHANGED <<scheduler, hook, sessions, nextSession, model, disk, nextFile, taskUrlMap, turns>>

\* ------------------------------------------------ ToolOrchestrationService
\* How far a handler gets before its first real await: it returns a result,
\* it throws, or it awaits a collaborator's HTTP reply on `api`.
Returned(result) == [kind |-> "return", result |-> result, api |-> "", path |-> 0]
Thrown(message, subject) ==
  [kind |-> "throw", result |-> Failure(message, subject), api |-> "", path |-> 0]
Awaiting(api, path) == [kind |-> "await", result |-> NoResult, api |-> api, path |-> path]

\* FileManager.getTransformationFiles: the transformation_* files of the
\* uploads directory; the id of each is parsed back from its name
\* (nameParts[2] of file.split('_'), the prefix being nameParts[0]).
getTransformationFiles(d) ==
  {f \in FileIds : d[f].bytes # NoBytes /\ Len(d[f].nameParts) >= 2}
parsedFileId(d, f) == d[f].nameParts[2]

SetMax(S) == CHOOSE x \in S : \A y \in S : y <= x

\* currentSessionFiles.get(id), then transformationFiles.find(...): the path
\* (0: not found) and where it was found.  Newest transformation file first.
resolveFile(pricingFileId, files, d) ==
  LET pool == {f \in getTransformationFiles(d) : parsedFileId(d, f) = pricingFileId} IN
  IF pricingFileId \in FileIdsOf(files)
  THEN [path |-> pricingFileId, source |-> "session"]
  ELSE IF pool # {} THEN [path |-> SetMax(pool), source |-> "transformation"]
  ELSE [path |-> 0, source |-> ""]

handleGetPricingSummary(args, files, d) ==
  IF args.pricingFileId = 0
  THEN Returned(Failure("Missing required parameter", "pricingFileId"))
  ELSE LET r == resolveFile(args.pricingFileId, files, d) IN
       IF r.path = 0
       THEN Returned(Failure("File not found in current session or transformation files", ""))
       ELSE IF ~validateYamlFile(d[r.path].bytes)
       THEN Returned(Failure("Invalid YAML file", ""))
       ELSE Awaiting("getSummary", r.path)

validOperations == {"validate", "optimal", "subscriptions", "filter"}
handleStartPricingAnalysisJob(args, files, d) ==
  IF args.pricingFileId = 0 \/ args.operation = "" \/ args.solver = ""
  THEN Returned(Failure("Missing required parameters",
                        "pricingFileId, operation, and solver"))
  ELSE LET r == resolveFile(args.pricingFileId, files, d) IN
       IF r.path = 0
       THEN Returned(Failure("File not found in current session or transformation files", ""))
       ELSE IF args.operation \notin validOperations
       THEN Returned(Failure("Invalid operation type", ""))
       ELSE Awaiting("startAnalysisJob", r.path)

handleGetPricingAnalysisJobStatus(args) ==
  IF args.jobId = ""
  THEN Returned(Failure("Missing required parameter", "jobId"))
  ELSE Awaiting("getJobStatus", 0)

\* (this.transformationAPI is configured: the constructor's try succeeded.)
handleInitiatePricingPageTransformation(args) ==
  IF args.url = NoUrl
  THEN Returned(Failure("Missing required parameter", "url"))
  ELSE IF ~args.url.valid
  THEN Returned(Failure("Invalid URL format", ""))
  ELSE Awaiting("startTransformation", 0)

handleGetTransformationTaskStatus(args) ==
  IF args.taskId = NoTask
  THEN Returned(Failure("Missing required parameter", "taskId"))
  ELSE Awaiting("getTransformationStatus", 0)

handleGetPricingStrategyAdvice(args) ==
  IF args.topic = ""
  THEN Thrown("Topic is required for pricing strategy advice", "topic")
  ELSE Returned(Success("Generating pricing strategy advice"))

handleGetAvailableTransformationFiles(d) ==
  Returned(Success("Found transformation file(s) available for analysis"))

\* GeminiService.getToolDefinitions: the names of the function declarations
\* handed to the model.
getToolDefinitions ==
  {"getPricingSummary", "startPricingAnalysisJob", "getPricingAnalysisJobStatus",
   "initiatePricingPageTransformation", "getTransformationTaskStatus",
   "getPricingStrategyAdvice"}

\* handleToolCall: the switch over functionCall.name; the catch rethrows.
handleToolCall(functionCall, currentSessionFiles, d) ==
  CASE functionCall.name = "getPricingSummary" ->
         handleGetPricingSummary(functionCall.arguments, currentSessionFiles, d)
    [] functionCall.name = "startPricingAnalysisJob" ->
         handleStartPricingAnalysisJob(functionCall.arguments, currentSessionFiles, d)
    [] functionCall.name = "getPricingAnalysisJobStatus" ->
         handleGetPricingAnalysisJobStatus(functionCall.arguments)
    [] functionCall.name = "initiatePricingPageTransformation" ->
         handleInitiatePricingPageTransformation(functionCall.arguments)
    [] functionCall.name = "getTransformationTaskStatus" ->
         handleGetTransformationTaskStatus(functionCall.arguments)
    [] functionCall.name = "getPricingStrategyAdvice" ->
         handleGetPricingStrategyAdvice(functionCall.arguments)
    [] functionCall.name = "getAvailableTransformationFiles" ->
         handleGetAvailableTransformationFiles(d)
    [] OTHER -> Thrown("Unknown function call", functionCall.name)

\* executeFunctionCalls: one handleToolCall per call, nothing caught.
executeFunctionCalls(functionCall, session, d) ==
  handleToolCall(functionCall, session.files, d)

\* -------------------------------------------------- the sendMessage turn
\* new Date() deltas the model lets pass in one step.
TickSizes == {1, inactiveThreshold}

TurnEvent(op, t, status) == [Event(op, turns[t].sid, status) EXCEPT !.turn = t]

\* GeminiService.convertToGeminiContent: each message with its role mapped
\* to model / function / user and its parts kept; a part that is neither a
\* truthy text nor a functionCall nor a functionResponse throws.
validPart(part) ==
  part.text # NoText \/ part.functionCall # NoCall \/ part.functionResponse # NoResult
convertible(messages) ==
  \A i \in 1..Len(messages) :
    \A j \in 1..Len(messages[i].parts) : validPart(messages[i].parts[j])
convertToGeminiContent(messages) ==
  [i \in 1..Len(messages) |->
     [role |-> IF messages[i].role = "model" THEN "model"
               ELSE IF messages[i].role = "tool" THEN "function" ELSE "user",
      parts |-> messages[i].parts]]

\* A history that carries the tool's result without the request before it.
messagesWithToolResponseOnly(functionCall, toolResult, chatHistory) ==
  Append(chatHistory, Message("tool", <<ResponsePart(functionCall, toolResult)>>))

\* sendToolResultBackToGemini: the history of the second generateContent
\* call, the given chat history followed by the model's request and the
\* tool's result.
messagesWithToolResponse(functionCall, toolResult, chatHistory) ==
  chatHistory \o << Message("model", <<CallPart(functionCall)>>),
                    Message("tool", <<ResponsePart(functionCall, toolResult)>>) >>

\* POST /session/:sessionId/message, up to the first generateContent call:
\* the user message is pushed, chatHistory copied, the session context built
\* and GeminiService.generateResponse picks modelToUse.
sendMessage(t, sessionId) ==
  /\ turns[t].pc = "idle"
  /\ \A u \in TurnIds : u < t => turns[u].pc # "idle"
  /\ LET session == Store[sessionId]
         userMessage == Message("user", <<TextPart("user", t)>>)
         chatHistory == Append(session.messages, userMessage)
         modelToUse == IF session.pricingContext # NoContext
                       THEN getSystemPrompt(session.pricingContext.content,
                                            session.pricingContext.fileName)
                       ELSE model[RoutesController]
     IN
     IF ~session.live THEN
          /\ turns' = [turns EXCEPT ![t] = [@ EXCEPT !.pc = "done", !.sid = sessionId,
                                                    !.status = 404, !.responses = @ + 1]]
          /\ last' = [Event("sendMessage", sessionId, 404) EXCEPT !.turn = t]
          /\ UNCHANGED sessions
     ELSE IF ~convertible(chatHistory) THEN
          \* convertToGeminiContent throws: generateResponse rethrows, 500
          /\ sessions' = putSession(sessionId,
                            [session EXCEPT !.messages = chatHistory,
                                            !.lastActivity = now])
          /\ turns' = [turns EXCEPT ![t] = [@ EXCEPT !.pc = "done", !.sid = sessionId,
                                                    !.chatHistory = chatHistory,
                                                    !.status = 500, !.responses = @ + 1]]
          /\ last' = [Event("sendMessage", sessionId, 500) EXCEPT !.turn = t]
     ELSE /\ sessions' = putSession(sessionId,
                            [session EXCEPT !.messages = chatHistory,
                                            !.lastActivity = now])
          /\ turns' = [turns EXCEPT ![t] =
               [@ EXCEPT !.pc = "firstPass", !.sid = sessionId,
                         !.chatHistory = chatHistory,
                         !.sent = convertToGeminiContent(chatHistory),
                         !.files = session.files,
                         !.pricingContext = session.pricingContext,
                         !.modelToUse = modelToUse,
                         !.used = <<modelToUse>>,
                         !.calls = 1]]
          /\ last' = [Event("generateContent", sessionId, 0) EXCEPT !.turn = t]
  /\ UNCHANGED <<now, ticks, scheduler, hook, nextSession, model, disk, nextFile, taskUrlMap>>

\* A handler that stores the session object it holds back under its id
\* when it appends the model message.
pushModelMessageStoringBack(t, hasContent, fc) ==
  LET sid == turns[t].sid
      parts == (IF hasContent THEN <<TextPart("model", t)>> ELSE <<>>)
               \o (IF fc # NoCall THEN <<CallPart(fc)>> ELSE <<>>)
  IN
  IF hasContent \/ fc # NoCall
  THEN putSession(sid, [Store[sid] EXCEPT
                          !.live = TRUE,
                          !.messages = Append(turns[t].chatHistory, Message("model", parts))])
  ELSE sessions

\* sendMessage after generateResponse returned: the model message is pushed
\* on the session object the handler holds (which the store may have dropped
\* meanwhile) when there is content or a function call, and 200 is sent.
pushModelMessage(t, hasContent, fc) ==
  LET sid == turns[t].sid
      parts == (IF hasContent THEN <<TextPart("model", t)>> ELSE <<>>)
               \o (IF fc # NoCall THEN <<CallPart(fc)>> ELSE <<>>)
  IN
  IF (hasContent \/ fc # NoCall) /\ Store[sid].live
  THEN putSession(sid, [Store[sid] EXCEPT
                          !.messages = Append(@, Message("model", parts))])
  ELSE sessions

\* A catch that logs the error and writes no response.
failSilently(t, fc) ==
  /\ turns' = [turns EXCEPT ![t] = [@ EXCEPT !.pc = "done", !.fc = fc]]
  /\ last' = TurnEvent("sendMessage", t, 0)
  /\ UNCHANGED sessions

\* generateResponse's catch rethrows and sendMessage's catch answers 500.
fail(t, fc) ==
  /\ turns' = [turns EXCEPT ![t] = [@ EXCEPT !.pc = "done", !.status = 500, !.responses = @ + 1, !.fc = fc]]
  /\ last' = TurnEvent("sendMessage", t, 500)
  /\ UNCHANGED sessions

\* The first generateContent call rejects.
firstPassThrows(t) ==
  /\ turns[t].pc = "firstPass"
  /\ fail(t, NoCall)
  /\ UNCHANGED <<now, ticks, scheduler, hook, nextSession, model, disk, nextFile, taskUrlMap>>

\* The first response has no function call: response.text() is the answer.
firstPassText(t, hasContent) ==
  /\ turns[t].pc = "firstPass"
  /\ sessions' = pushModelMessage(t, hasContent, NoCall)
  /\ turns' = [turns EXCEPT ![t] = [@ EXCEPT !.pc = "done", !.status = 200, !.responses = @ + 1]]
  /\ last' = [TurnEvent("sendMessage", t, 200) EXCEPT !.content = hasContent]
  /\ UNCHANGED <<now, ticks, scheduler, hook, nextSession, model, disk, nextFile, taskUrlMap>>

\* A second pass on the model built from what the session and the service
\* hold when the tool has answered.
secondPassModelBuiltAnew(t) ==
  LET session == Store[turns[t].sid] IN
  IF session.pricingContext # NoContext
  THEN getSystemPrompt(session.pricingContext.content, session.pricingContext.fileName)
  ELSE model[RoutesController]

\* sendToolResultBackToGemini(..., modelToUse): the model instance the
\* first generateContent call was made on, held in generateResponse's local.
secondPassModel(t) == turns[t].modelToUse

\* Every call of the response handed to executeFunctionCalls.
toExecuteAll(functionCalls) == functionCalls

\* `const fc = functionCalls[0]` and `[functionCallToExecute]`: what
\* generateResponse hands to executeFunctionCalls out of the response's calls.
toExecute(functionCalls) == <<functionCalls[1]>>

\* The first response carries function calls: functionCalls[0] is executed
\* through executeFunctionCalls, up to the handler's first await; a handler
\* that returns at once leads straight into sendToolResultBackToGemini.
firstPassToolCalls(t, functionCalls) ==
  /\ turns[t].pc = "firstPass"
  /\ LET calls == toExecute(functionCalls)
         fc == calls[1]
         step == executeFunctionCalls(fc, turns[t], disk)
     IN
     CASE step.kind = "throw" ->
            /\ turns' = [turns EXCEPT ![t] =
                 [@ EXCEPT !.pc = "done", !.status = 500, !.responses = @ + 1, !.fc = fc,
                           !.requested = functionCalls, !.executed = calls]]
            /\ last' = TurnEvent("sendMessage", t, 500)
            /\ UNCHANGED sessions
       [] step.kind = "return" ->
            /\ turns' = [turns EXCEPT ![t] =
                 [@ EXCEPT !.pc = "secondPass", !.fc = fc,
                           !.toolResult = step.result, !.calls = 2,
                           !.requested = functionCalls, !.executed = calls,
                           !.used = Append(@, secondPassModel(t)),
                           !.sent = convertToGeminiContent(
                              messagesWithToolResponse(fc, step.result, turns[t].chatHistory))]]
            /\ last' = TurnEvent("generateContent", t, 0)
            /\ UNCHANGED sessions
       [] step.kind = "await" ->
            /\ turns' = [turns EXCEPT ![t] =
                 [@ EXCEPT !.pc = step.api, !.fc = fc, !.path = step.path,
                           !.requested = functionCalls, !.executed = calls]]
            /\ last' = TurnEvent(step.api, t, 0)
            /\ UNCHANGED sessions
  /\ UNCHANGED <<now, ticks, scheduler, hook, nextSession, model, disk, nextFile, taskUrlMap>>

\* The first response carries the single function call fc.
firstPassToolCall(t, fc) == firstPassToolCalls(t, <<fc>>)

\* The handler's tail once its collaborator answered, and the second
\* generateContent call being issued with modelToUse.
toSecondPass(t, result, error) ==
  /\ turns' = [turns EXCEPT ![t] =
       [@ EXCEPT !.pc = "secondPass", !.toolResult = result, !.calls = 2,
                 !.used = Append(@, secondPassModel(t)),
                 !.sent = convertToGeminiContent(
                    messagesWithToolResponse(turns[t].fc, result, turns[t].chatHistory))]]
  /\ last' = [TurnEvent("generateContent", t, 0) EXCEPT !.error = error]

\* What a collaborator's HTTP client threw (error.message); NoError: it answered.
NoError == ""
CollaboratorErrors == {"connect ECONNREFUSED", "timeout of 30000ms exceeded"}
Replies == {NoError} \cup CollaboratorErrors
\* `Failed to ...: ${error.message}`
caught(prefix, error) == Failure(prefix, error)

\* analysisAPI.getSummary / startAnalysisJob / getJobStatus answer or reject.
FailureOf(api) ==
  CASE api = "getSummary" -> "Failed to get pricing summary"
    [] api = "startAnalysisJob" -> "Failed to start analysis job"
    [] api = "getJobStatus" -> "Failed to get job status"
    [] api = "startTransformation" -> "Failed to start transformation"
    [] OTHER -> "Failed to get transformation status"
SuccessOf(api) ==
  CASE api = "getSummary" -> "Pricing summary generated successfully"
    [] api = "startAnalysisJob" -> "Analysis job started successfully"
    [] api = "getJobStatus" -> "Job status retrieved"
    [] api = "startTransformation" -> "Transformation started"
    [] OTHER -> "Transformation task status retrieved"
AnalysisApis == {"getSummary", "startAnalysisJob", "getJobStatus"}

JobStatuses == {"RUNNING", "COMPLETED"}

\* A handler without its try/catch: the client's error leaves the dispatcher.
analysisReplyUncaught(t, error, data) ==
  /\ turns[t].pc \in AnalysisApis
  /\ IF error = NoError
     THEN toSecondPass(t, [Success(SuccessOf(turns[t].pc)) EXCEPT !.data = data], error)
     ELSE /\ turns' = [turns EXCEPT ![t] = [@ EXCEPT !.pc = "done", !.status = 500, !.responses = @ + 1]]
          /\ last' = [TurnEvent("sendMessage", t, 500) EXCEPT !.error = error]
  /\ UNCHANGED <<now, ticks, scheduler, hook, sessions, nextSession, model, disk,
                 nextFile, taskUrlMap>>

analysisReply(t, error, data) ==
  /\ turns[t].pc \in AnalysisApis
  /\ LET api == turns[t].pc
         fileId == turns[t].fc.arguments.pricingFileId
         source == IF api = "getJobStatus" THEN ""
                   ELSE IF fileId \in FileIdsOf(turns[t].files) THEN "session"
                   ELSE "transformation"
     IN toSecondPass(t,
          IF error = NoError
          THEN [Success(SuccessOf(api)) EXCEPT !.fileSource = source, !.data = data]
          ELSE caught(FailureOf(api), error),
          error)
  /\ UNCHANGED <<now, ticks, scheduler, hook, sessions, nextSession, model, disk,
                 nextFile, taskUrlMap>>

\* transformationAPI.startTransformation answers with a task id, or rejects.
startTransformationReply(t, error, taskId) ==
  /\ turns[t].pc = "startTransformation"
  /\ toSecondPass(t, IF error = NoError THEN Success(SuccessOf("startTransformation"))
                     ELSE caught(FailureOf("startTransformation"), error),
                  error)
  /\ taskUrlMap' = IF error = NoError
                   THEN [taskUrlMap EXCEPT ![taskId] = turns[t].fc.arguments.url]
                   ELSE taskUrlMap
  /\ UNCHANGED <<now, ticks, scheduler, hook, sessions, nextSession, model, disk, nextFile>>

\* `pricing_from_${new URL(originalUrl).hostname}.yaml`
pricingFrom(hostname) ==
  [stem |-> IF hostname = "example.com" THEN "pricing_from_example.com"
            ELSE "pricing_from_", ext |-> ".yaml"]

\* transformationAPI.getTransformationStatus answers (status, yamlContent) or
\* rejects.  COMPLETED with content: saveTransformationResult writes the file
\* and then builds its SessionFile, where new URL(...) throws for the default
\* `transformation-<taskId>`; on success the module singleton geminiService
\* gets the document as its pricing context.
transformationStatusReply(t, error, status, yamlContent) ==
  /\ turns[t].pc = "getTransformationStatus"
  /\ LET taskId == turns[t].fc.arguments.taskId
         known == taskId \in TaskIds /\ taskUrlMap[taskId] # NoUrl
         originalUrl == IF known THEN taskUrlMap[taskId] ELSE NoUrl
         fileId == nextFile + 1
         written == [disk EXCEPT ![fileId] =
                       [bytes |-> yamlContent, nameParts |-> Append(taskId, fileId),
                        mtime |-> now]]
     IN
     IF error # NoError THEN
          /\ toSecondPass(t, caught(FailureOf("getTransformationStatus"), error), error)
          /\ UNCHANGED <<disk, nextFile, taskUrlMap, model>>
     ELSE IF status # "COMPLETED" THEN
          /\ toSecondPass(t, [Success(SuccessOf("getTransformationStatus")) EXCEPT
                                !.data = status], error)
          /\ UNCHANGED <<disk, nextFile, taskUrlMap, model>>
     ELSE /\ nextFile < MaxFiles
          /\ disk' = written
          /\ nextFile' = fileId
          /\ IF originalUrl.valid
             THEN /\ taskUrlMap' = [taskUrlMap EXCEPT ![taskId] = NoUrl]
                  /\ model' = [model EXCEPT !["singleton"] =
                       getSystemPrompt(yamlContent, pricingFrom(originalUrl.hostname))]
                  /\ toSecondPass(t, [Success("Transformation completed") EXCEPT
                                        !.savedFile = fileId,
                                        !.contextAutoUpdated = TRUE,
                                        !.data = status], error)
             ELSE /\ toSecondPass(t, [Success("Transformation completed") EXCEPT
                                        !.data = status], error)
                  /\ UNCHANGED <<taskUrlMap, model>>
  /\ UNCHANGED <<now, ticks, scheduler, hook, sessions, nextSession>>

\* The second generateContent call rejects: sendToolResultBackToGemini and
\* generateResponse rethrow.
secondPassThrows(t) ==
  /\ turns[t].pc = "secondPass"
  /\ fail(t, turns[t].fc)
  /\ UNCHANGED <<now, ticks, scheduler, hook, nextSession, model, disk, nextFile, taskUrlMap>>

\* The second response's text() is the final content; generateResponse
\* returns it with functionCalls: [functionCallToExecute].
secondPassText(t, hasContent) ==
  /\ turns[t].pc = "secondPass"
  /\ sessions' = pushModelMessage(t, hasContent, turns[t].fc)
  /\ turns' = [turns EXCEPT ![t] = [@ EXCEPT !.pc = "done", !.status = 200, !.responses = @ + 1]]
  /\ last' = [TurnEvent("sendMessage", t, 200) EXCEPT !.content = hasContent]
  /\ UNCHANGED <<now, ticks, scheduler, hook, nextSession, model, disk, nextFile, taskUrlMap>>

\* The second response carries a function call again: sendToolResultBackToGemini
\* reads result.response.text() only, so the request is dropped and the text
\* (empty when the response holds nothing but the call) is the final content.
secondPassToolCall(t, fc, hasContent) ==
  /\ turns[t].pc = "secondPass"
  /\ sessions' = pushModelMessage(t, hasContent, turns[t].fc)
  /\ turns' = [turns EXCEPT ![t] = [@ EXCEPT !.pc = "done", !.status = 200, !.responses = @ + 1,
                                             !.second = fc]]
  /\ last' = [TurnEvent("sendMessage", t, 200) EXCEPT !.content = hasContent]
  /\ UNCHANGED <<now, ticks, scheduler, hook, nextSession, model, disk, nextFile, taskUrlMap>>

\* ------------------------------------------------------- the chat handler
\* ChatController.chat, the handler README documents as POST /api/chat.
\* chatRoutes.ts binds no route to it; it is a public handler of the
\* controller that holds the sessions, and takes the message together with
\* the files multer stored for the request (req.files).

\* A text part whose text is the empty string.
EmptyTextPart == TextPart("", 0)
textOf(by, t, hasContent) == IF hasContent THEN TextPart(by, t) ELSE EmptyTextPart

\* multer has written the request's files before the handler runs:
\* one path of the uploads directory per file.
RECURSIVE storedByMulter(_, _, _)
storedByMulter(d, n, files) ==
  IF files = <<>> THEN d
  ELSE storedByMulter([d EXCEPT ![n + 1] = [bytes |-> Head(files).content, nameParts |-> <<>>,
                                            mtime |-> now]],
                      n + 1, Tail(files))

\* chat's loop over req.files: saveUploadedFile, session.files.push, and the
\* session's pricingContext set from each file that isPricingYamlFile accepts.
RECURSIVE attach(_, _, _)
attach(session, n, files) ==
  IF files = <<>> THEN session
  ELSE LET file == Head(files)
           sessionFile == [id |-> n + 1, originalName |-> file.originalName]
       IN attach([session EXCEPT
                    !.files = Append(@, sessionFile),
                    !.pricingContext =
                       IF isPricingYamlFile(file.originalName, file.content)
                       THEN contextOf(sessionFile, file.content)
                       ELSE @],
                 n + 1, Tail(files))

\* chat up to the first generateContent call of generateResponse.
\* (generateResponse is handed session.messages itself, not a copy;
\* chatHistory records the log as it is at this call.)
chat(t, sessionId, files) ==
  /\ turns[t].pc = "idle"
  /\ \A u \in TurnIds : u < t => turns[u].pc # "idle"
  /\ nextFile + Len(files) <= MaxFiles
  /\ disk' = storedByMulter(disk, nextFile, files)
  /\ nextFile' = nextFile + Len(files)
  /\ IF ~Store[sessionId].live THEN
          \* next(new AppError('Session not found', 404)): req.files stay
          /\ turns' = [turns EXCEPT ![t] = [@ EXCEPT !.pc = "done", !.sid = sessionId,
                                                    !.status = 404, !.responses = @ + 1]]
          /\ last' = [Event("chat", sessionId, 404) EXCEPT !.turn = t]
          /\ UNCHANGED sessions
     ELSE LET attached == attach([Store[sessionId] EXCEPT !.lastActivity = now],
                                 nextFile, files)
              session == [attached EXCEPT
                            !.messages = Append(@, Message("user", <<TextPart("user", t)>>))]
          IN
          /\ sessions' = putSession(sessionId, session)
          /\ IF ~convertible(session.messages) THEN
               \* convertToGeminiContent throws: chat's catch answers 500
               /\ turns' = [turns EXCEPT ![t] = [@ EXCEPT !.pc = "done", !.sid = sessionId,
                                                         !.chatHistory = session.messages,
                                                         !.status = 500, !.responses = @ + 1]]
               /\ last' = [Event("chat", sessionId, 500) EXCEPT !.turn = t]
             ELSE
               /\ turns' = [turns EXCEPT ![t] =
                    [@ EXCEPT !.pc = "chatFirstPass", !.sid = sessionId,
                              !.chatHistory = session.messages,
                              !.sent = convertToGeminiContent(session.messages),
                              !.files = session.files,
                              !.pricingContext = session.pricingContext,
                              !.modelToUse =
                                 IF session.pricingContext # NoContext
                                 THEN getSystemPrompt(session.pricingContext.content,
                                                      session.pricingContext.fileName)
                                 ELSE model[RoutesController],
                              !.calls = 1]]
               /\ last' = [Event("generateContent", sessionId, 0) EXCEPT !.turn = t]
  /\ UNCHANGED <<now, ticks, scheduler, hook, nextSession, model, taskUrlMap>>

\* chat's catch: 500 with the apology reply.
chatFails(t) ==
  /\ turns' = [turns EXCEPT ![t] = [@ EXCEPT !.pc = "done", !.status = 500, !.responses = @ + 1]]
  /\ last' = TurnEvent("chat", t, 500)

\* A generateContent call of a chat turn rejects.
chatThrows(t) ==
  /\ turns[t].pc \in {"chatFirstPass", "chatSecondPass", "chatFinalPass"}
  /\ chatFails(t)
  /\ UNCHANGED <<now, ticks, scheduler, hook, sessions, nextSession, model, disk, nextFile,
                 taskUrlMap>>

\* session.messages.push(modelMessage) on the session object the handler
\* holds: the message and the index it is stored at in the log.
pushChatMessage(t, part) ==
  LET sid == turns[t].sid IN
  IF Store[sid].live
  THEN putSession(sid, [Store[sid] EXCEPT
                          !.messages = Append(@, Message("model", <<part>>))])
  ELSE sessions

\* The first response has no function call: the model message holds
\* response.text(), whatever it is, and the request is answered.
chatText(t, hasContent) ==
  /\ turns[t].pc = "chatFirstPass"
  /\ sessions' = pushChatMessage(t, textOf("model", t, hasContent))
  /\ turns' = [turns EXCEPT ![t] = [@ EXCEPT !.pc = "done", !.status = 200, !.responses = @ + 1]]
  /\ last' = [TurnEvent("chat", t, 200) EXCEPT !.content = hasContent]
  /\ UNCHANGED <<now, ticks, scheduler, hook, nextSession, model, disk, nextFile, taskUrlMap>>

\* The log a chat turn hands on: session.messages of the session object it
\* holds, as it is now.
logOf(t) ==
  IF Store[turns[t].sid].live THEN Store[turns[t].sid].messages
  ELSE turns[t].chatHistory

\* The first response carries the function call fc: generateResponse
\* executes it and issues the second generateContent call.  (Requests are
\* drawn from the tools whose handlers await no collaborator.)
chatToolCall(t, fc) ==
  /\ turns[t].pc = "chatFirstPass"
  /\ LET step == executeFunctionCalls(fc, [files |-> turns[t].files], disk) IN
     /\ step.kind # "await"
     /\ IF step.kind = "throw"
        THEN /\ turns' = [turns EXCEPT ![t] = [@ EXCEPT !.pc = "done", !.status = 500, !.responses = @ + 1,
                                                       !.fc = fc]]
             /\ last' = TurnEvent("chat", t, 500)
        ELSE /\ turns' = [turns EXCEPT ![t] =
                  [@ EXCEPT !.pc = "chatSecondPass", !.fc = fc,
                            !.toolResult = step.result, !.calls = 2,
                            !.requested = <<fc>>, !.executed = <<fc>>,
                            !.sent = convertToGeminiContent(
                               messagesWithToolResponse(fc, step.result, logOf(t)))]]
             /\ last' = TurnEvent("generateContent", t, 0)
  /\ UNCHANGED <<now, ticks, scheduler, hook, sessions, nextSession, model, disk, nextFile,
                 taskUrlMap>>

\* executeFunctionCalls([functionCall], session) as chat calls it: the
\* session's files are an Array, on which the file tools' lookup
\* currentSessionFiles.get(...) is not a function.
chatExecute(fc, d) ==
  LET args == fc.arguments IN
  IF \/ fc.name = "getPricingSummary" /\ args.pricingFileId # 0
     \/ /\ fc.name = "startPricingAnalysisJob"
        /\ args.pricingFileId # 0 /\ args.operation # "" /\ args.solver # ""
  THEN Thrown("currentSessionFiles.get is not a function", "")
  ELSE handleToolCall(fc, <<>>, d)

\* generateResponse returned the second response's text and the executed
\* call: chat pushes the model message, executes the call once more and asks
\* the model a third time through processToolResultWithSessionContext, with
\* the session's log and pricingContext as they are now.
chatSecondPass(t, hasContent) ==
  /\ turns[t].pc = "chatSecondPass"
  /\ LET sid == turns[t].sid
         step == chatExecute(turns[t].fc, disk)
         session == Store[sid]
         messages == Append(logOf(t), Message("model", <<textOf("model", t, hasContent)>>))
     IN
     /\ step.kind # "await"
     /\ sessions' = pushChatMessage(t, textOf("model", t, hasContent))
     /\ IF step.kind = "throw" \/ ~convertible(messages)
        THEN \* the tool, or convertToGeminiContent on the empty text, throws
             /\ turns' = [turns EXCEPT ![t] = [@ EXCEPT !.pc = "done", !.status = 500, !.responses = @ + 1]]
             /\ last' = TurnEvent("chat", t, 500)
        ELSE /\ turns' = [turns EXCEPT ![t] =
                  [@ EXCEPT !.pc = "chatFinalPass", !.calls = 3,
                            !.sent = convertToGeminiContent(
                               messagesWithToolResponse(turns[t].fc, step.result, messages)),
                            !.at = IF session.live THEN Len(session.messages) + 1 ELSE 0,
                            !.executed = Append(@, turns[t].fc),
                            !.toolResult = step.result,
                            !.modelToUse =
                               IF session.live /\ session.pricingContext # NoContext
                               THEN getSystemPrompt(session.pricingContext.content,
                                                    session.pricingContext.fileName)
                               ELSE IF session.live THEN model[RoutesController]
                               ELSE @]]
             /\ last' = [TurnEvent("generateContent", t, 0) EXCEPT !.content = hasContent]
  /\ UNCHANGED <<now, ticks, scheduler, hook, nextSession, model, disk, nextFile, taskUrlMap>>

\* The third response arrived: modelMessage.parts = [{ text: finalResponse }]
\* rewrites the message that is already in the log, and the request is
\* answered with the second response's text as reply.
chatFinalPass(t, hasContent) ==
  /\ turns[t].pc = "chatFinalPass"
  /\ LET sid == turns[t].sid
         at == turns[t].at
     IN
     sessions' = IF Store[sid].live /\ at # 0
                 THEN putSession(sid, [Store[sid] EXCEPT
                        !.messages[at] = Message("model", <<textOf("final", t, hasContent)>>)])
                 ELSE sessions
  /\ turns' = [turns EXCEPT ![t] = [@ EXCEPT !.pc = "done", !.status = 200, !.responses = @ + 1]]
  /\ last' = [TurnEvent("chat", t, 200) EXCEPT !.content = hasContent]
  /\ UNCHANGED <<now, ticks, scheduler, hook, nextSession, model, disk, nextFile, taskUrlMap>>

\* ------------------------------------------------- the useAsyncJob hook
\* frontend/src/hooks/useAsyncJob.ts.  The hook's effect runs when jobId
\* changes; poll is an async closure over that jobId, run once at once and
\* then by an interval timer.  A fetchStatus call settles some time after it
\* was made, and calls settle in any order.
backend == <<now, ticks, scheduler, sessions, nextSession, model, disk, nextFile,
             taskUrlMap, turns, last>>

FreePolls == {p \in PollIds : hook.polls[p].state = "none"}
\* window.clearInterval(intervalRef.current): the timer with that id is
\* stopped (the ref keeps the id).
clearInterval(intervals, id) == intervals \ {id}
\* poll() up to `await fetchStatus(jobId)`.
poll(polls, jobId) ==
  LET p == CHOOSE q \in FreePolls : \A r \in FreePolls : q <= r IN
  [polls EXCEPT ![p] = [state |-> "sent", jobId |-> jobId, data |-> ""]]

\* The component renders with the next jobId: the cleanup of the previous
\* effect stops its timer, then the effect resets the three states, polls
\* once and sets the interval timer (timers are named by their jobId).
render(jobId) ==
  /\ jobId = hook.jobId + 1
  /\ FreePolls # {}
  /\ hook' = [hook EXCEPT
       !.jobId = jobId, !.status = "PENDING", !.result = FALSE, !.error = FALSE,
       !.polls = poll(@, jobId),
       !.intervalRef = jobId,
       !.intervals = clearInterval(@, hook.intervalRef) \cup {jobId}]
  /\ UNCHANGED backend

\* An interval timer that is set fires: poll() of the effect that set it.
intervalFires(id) ==
  /\ id \in hook.intervals
  /\ FreePolls # {}
  /\ hook' = [hook EXCEPT !.polls = poll(@, id)]
  /\ UNCHANGED backend

\* The job makes progress at the server.
jobAdvances(jobId, status) ==
  /\ \/ hook.job[jobId] = "PENDING" /\ status = "RUNNING"
     \/ hook.job[jobId] = "RUNNING" /\ status \in {"COMPLETED", "FAILED"}
  /\ hook' = [hook EXCEPT !.job[jobId] = status]
  /\ UNCHANGED backend

\* The server answers a fetchStatus call with the job's status as it is
\* now, or the call fails.
fetchStatusSettles(p, rejected) ==
  /\ hook.polls[p].state = "sent"
  /\ hook' = [hook EXCEPT !.polls[p] =
       [@ EXCEPT !.state = "settled",
                 !.data = IF rejected THEN "error" ELSE hook.job[hook.polls[p].jobId]]]
  /\ UNCHANGED backend

\* poll() after its await: setStatus(data.status); on COMPLETED or FAILED,
\* and in the catch, the timer intervalRef.current names is stopped.
pollResumes(p) ==
  /\ hook.polls[p].state = "settled"
  /\ LET data == hook.polls[p].data IN
     hook' = [hook EXCEPT
       !.polls[p] = [@ EXCEPT !.state = "handled"],
       !.status = IF data = "error" THEN @ ELSE data,
       !.result = IF data = "COMPLETED" THEN TRUE ELSE @,
       !.error = IF data \in {"FAILED", "error"} THEN TRUE ELSE @,
       !.intervals = IF data \in {"COMPLETED", "FAILED", "error"}
                     THEN clearInterval(@, hook.intervalRef) ELSE @]
  /\ UNCHANGED backend

\* ------------------------------------------------------- specifications
\* The statuses the transformation service reports for a task.
TaskStatuses == {"PENDING", "COMPLETED"}
\* A first response that carries more than one function call.
SeveralRequests ==
  { << Call("getPricingStrategyAdvice", [NoArgs EXCEPT !.topic = "freemium"]),
       Call("getPricingAnalysisJobStatus", [NoArgs EXCEPT !.jobId = "job-1"]) >>,
    << Call("getPricingAnalysisJobStatus", [NoArgs EXCEPT !.jobId = "job-1"]),
       Call("getPricingStrategyAdvice", [NoArgs EXCEPT !.topic = "freemium"]) >> }
Next ==
  \/ createSession
  \/ \E s \in SessionIds, f \in UploadInputs : uploadFile(s, f)
  \/ \E s \in SessionIds, f \in FileIds \cup {0} : updatePricingContext(s, f)
  \/ \E s \in SessionIds : clearPricingContext(s)
  \/ \E s \in SessionIds : getPricingContextInfo(s)
  \/ \E s \in SessionIds : getSession(s)
  \/ \E s \in SessionIds : getMessages(s)
  \/ \E s \in SessionIds : getSessionFiles(s)
  \/ \E s \in SessionIds, f \in FileIds : deleteSessionFile(s, f)
  \/ \E s \in SessionIds : deleteSession(s)
  \/ cleanupInactiveSessions
  \/ cleanupOldFiles
  \/ \E d \in TickSizes : Tick(d)
  \/ \E t \in TurnIds, s \in SessionIds : sendMessage(t, s)
  \/ \E t \in TurnIds : firstPassThrows(t)
  \/ \E t \in TurnIds, c \in BOOLEAN : firstPassText(t, c)
  \/ \E t \in TurnIds, fc \in ToolRequests : firstPassToolCall(t, fc)
  \/ \E t \in TurnIds, fcs \in SeveralRequests : firstPassToolCalls(t, fcs)
  \/ \E t \in TurnIds, e \in Replies, d \in JobStatuses : analysisReply(t, e, d)
  \/ \E t \in TurnIds, e \in Replies, k \in TaskIds : startTransformationReply(t, e, k)
  \/ \E t \in TurnIds, e \in Replies, st \in TaskStatuses :
       transformationStatusReply(t, e, st, PricingDoc)
  \/ \E t \in TurnIds : secondPassThrows(t)
  \/ \E t \in TurnIds, c \in BOOLEAN : secondPassText(t, c)
  \/ \E t \in TurnIds, fc \in ToolRequests, c \in BOOLEAN : secondPassToolCall(t, fc, c)
  \/ \E t \in TurnIds, s \in SessionIds, files \in {<<>>} \cup {<<f>> : f \in UploadInputs} :
       chat(t, s, files)
  \/ \E t \in TurnIds : chatThrows(t)
  \/ \E t \in TurnIds, c \in BOOLEAN : chatText(t, c)
  \/ \E t \in TurnIds, fc \in ToolRequests : chatToolCall(t, fc)
  \/ \E t \in TurnIds, c \in BOOLEAN : chatSecondPass(t, c)
  \/ \E t \in TurnIds, c \in BOOLEAN : chatFinalPass(t, c)
  \/ \E j \in JobIds : render(j)
  \/ \E id \in JobIds : intervalFires(id)
  \/ \E j \in JobIds, s \in {"RUNNING", "COMPLETED", "FAILED"} : jobAdvances(j, s)
  \/ \E p \in PollIds, rejected \in BOOLEAN : fetchStatusSettles(p, rejected)
  \/ \E p \in PollIds : pollResumes(p)

\* The turn protocol alone: sessions and sendMessage with every tool request.
NextTurn ==
  \/ createSession
  \/ \E t \in TurnIds, s \in SessionIds : sendMessage(t, s)
  \/ \E t \in TurnIds : firstPassThrows(t)
  \/ \E t \in TurnIds, c \in BOOLEAN : firstPassText(t, c)
  \/ \E t \in TurnIds, fc \in ToolRequests : firstPassToolCall(t, fc)
  \/ \E t \in TurnIds, e \in Replies, d \in JobStatuses : analysisReply(t, e, d)
  \/ \E t \in TurnIds : secondPassThrows(t)
  \/ \E t \in TurnIds, c \in BOOLEAN : secondPassText(t, c)
SpecTurn == InitWith(ServerController) /\ [][NextTurn]_vars

\* Sessions, files and pricing contexts, with turns that answer directly or
\* through one tool that needs no collaborator.
OneTurn == 1
AdviceRequests == {fc \in ToolRequests : fc.name = "getPricingStrategyAdvice"}
NextContext ==
  \/ createSession
  \/ \E s \in SessionIds, f \in UploadInputs : uploadFile(s, f)
  \/ \E s \in SessionIds, f \in FileIds \cup {0} : updatePricingContext(s, f)
  \/ \E s \in SessionIds : clearPricingContext(s)
  \/ \E s \in SessionIds : getPricingContextInfo(s)
  \/ \E s \in SessionIds : deleteSession(s)
  \/ \E t \in 1..OneTurn, s \in SessionIds : sendMessage(t, s)
  \/ \E t \in 1..OneTurn : firstPassText(t, TRUE)
  \/ \E t \in 1..OneTurn, fc \in AdviceRequests : firstPassToolCall(t, fc)
  \/ \E t \in 1..OneTurn : secondPassText(t, TRUE)
SpecContext == InitWith(ServerController) /\ [][NextContext]_vars

\* Session lifetime: creation, uploads, turns, the clock and the sweep.
NextSweep ==
  \/ createSession
  \/ \E s \in SessionIds, f \in UploadInputs : uploadFile(s, f)
  \/ \E s \in SessionIds : deleteSession(s)
  \/ \E t \in 1..OneTurn, s \in SessionIds : sendMessage(t, s)
  \/ \E t \in 1..OneTurn : firstPassText(t, TRUE)
  \/ cleanupInactiveSessions
  \/ \E d \in TickSizes : Tick(d)

\* The program as server.ts wires it: the scheduler holds its own controller.
SpecWired == InitWith(ServerController) /\ [][NextSweep]_vars

\* The SchedulerService constructed with the controller that serves the routes.
SpecShared == InitWith(RoutesController) /\ [][NextSweep]_vars

\* The dispatcher with every tool, one turn after the other: complete
\* requests, requests that lack a required argument, a task id with an
\* underscore, and collaborators that answer or fail.
CompleteRequests ==
  { Call("getPricingSummary", [NoArgs EXCEPT !.pricingFileId = 1]),
    Call("startPricingAnalysisJob",
         [NoArgs EXCEPT !.pricingFileId = 1, !.operation = "validate", !.solver = "minizinc"]),
    Call("getPricingAnalysisJobStatus", [NoArgs EXCEPT !.jobId = "job-1"]),
    Call("initiatePricingPageTransformation", [NoArgs EXCEPT !.url = PricingPage]),
    Call("getPricingStrategyAdvice", [NoArgs EXCEPT !.topic = "freemium"]),
    Call("getAvailableTransformationFiles", NoArgs) }
    \cup {Call("getTransformationTaskStatus", [NoArgs EXCEPT !.taskId = k]) : k \in TaskIds}
IncompleteRequests ==
  { Call("getPricingSummary", NoArgs),
    Call("startPricingAnalysisJob",
         [NoArgs EXCEPT !.pricingFileId = 1, !.operation = "validate"]),
    Call("getPricingAnalysisJobStatus", NoArgs),
    Call("initiatePricingPageTransformation", NoArgs),
    Call("getTransformationTaskStatus", NoArgs),
    Call("getPricingStrategyAdvice", NoArgs) }
NextTools ==
  \/ createSession
  \/ \E s \in SessionIds :
       (\A u \in TurnIds : turns[u].pc = "idle")
       /\ uploadFile(s, [originalName |-> [stem |-> "plans", ext |-> ".YML"],
                         content |-> MinimalDoc])
  \/ \E t \in TurnIds, s \in SessionIds :
       (\A u \in TurnIds : turns[u].pc \in {"idle", "done"}) /\ sendMessage(t, s)
  \/ \E t \in TurnIds, fc \in CompleteRequests \cup IncompleteRequests :
       firstPassToolCall(t, fc)
  \/ \E t \in TurnIds, fcs \in SeveralRequests : firstPassToolCalls(t, fcs)
  \/ \E t \in TurnIds, e \in Replies, d \in JobStatuses : analysisReply(t, e, d)
  \/ \E t \in TurnIds, e \in Replies, k \in TaskIds : startTransformationReply(t, e, k)
  \/ \E t \in TurnIds, e \in Replies, st \in TaskStatuses :
       transformationStatusReply(t, e, st, PricingDoc)
  \/ \E t \in TurnIds : secondPassText(t, TRUE)
  \/ \E t \in TurnIds, fc \in AdviceRequests : secondPassToolCall(t, fc, FALSE)
SpecTools == InitWith(ServerController) /\ [][NextTools]_vars

\* The transformation tools, one turn after the other, and session deletion.
TransformationRequests ==
  {fc \in CompleteRequests :
     fc.name \in {"initiatePricingPageTransformation", "getTransformationTaskStatus"}}
NextTransformation ==
  \/ createSession
  \/ \E s \in SessionIds : deleteSession(s)
  \/ \E t \in TurnIds, s \in SessionIds :
       (\A u \in TurnIds : turns[u].pc \in {"idle", "done"}) /\ sendMessage(t, s)
  \/ \E t \in TurnIds, fc \in TransformationRequests : firstPassToolCall(t, fc)
  \/ \E t \in TurnIds, e \in Replies, k \in TaskIds : startTransformationReply(t, e, k)
  \/ \E t \in TurnIds, e \in Replies, st \in TaskStatuses :
       transformationStatusReply(t, e, st, PricingDoc)
  \/ \E t \in TurnIds : secondPassText(t, TRUE)
SpecTransformation == InitWith(ServerController) /\ [][NextTransformation]_vars

\* Uploads and what the session reports about its context afterwards,
\* with a document that holds the keys saasName, plans and version only.
ScenarioDoc == {"saasName", "plans", "version"}
ScenarioInputs ==
  UploadInputs \cup
    { [originalName |-> [stem |-> "pricing", ext |-> ".yaml"], content |-> ScenarioDoc] }
NextUpload ==
  \/ createSession
  \/ \E s \in SessionIds, f \in ScenarioInputs : uploadFile(s, f)
  \/ \E s \in SessionIds, f \in FileIds \cup {0} : updatePricingContext(s, f)
  \/ \E s \in SessionIds : getPricingContextInfo(s)
  \/ \E s \in SessionIds : deleteSession(s)
SpecUpload == InitWith(ServerController) /\ [][NextUpload]_vars

\* Files and pricing contexts over time: uploads, explicit contexts, the
\* clock and the age-based cleanup of the uploads directory.
NextFiles ==
  \/ createSession
  \/ \E s \in SessionIds, f \in UploadInputs : uploadFile(s, f)
  \/ \E s \in SessionIds, f \in FileIds \cup {0} : updatePricingContext(s, f)
  \/ \E s \in SessionIds : clearPricingContext(s)
  \/ \E s \in SessionIds : deleteSession(s)
  \/ cleanupOldFiles
  \/ \E d \in TickSizes : Tick(d)
SpecFiles == InitWith(ServerController) /\ [][NextFiles]_vars

\* Sessions that are written and read while the clock advances, swept by a
\* scheduler that holds the controller serving the routes.
NextReads ==
  \/ createSession
  \/ \E s \in SessionIds, f \in UploadInputs : uploadFile(s, f)
  \/ \E s \in SessionIds : clearPricingContext(s)
  \/ \E s \in SessionIds : getSession(s)
  \/ \E s \in SessionIds : getMessages(s)
  \/ \E s \in SessionIds : getSessionFiles(s)
  \/ \E s \in SessionIds : getPricingContextInfo(s)
  \/ cleanupInactiveSessions
  \/ \E d \in TickSizes : Tick(d)
SpecReads == InitWith(RoutesController) /\ [][NextReads]_vars

\* Uploads of well-formed documents and of a document without the required
\* key saasName, and what the session lists as its files afterwards.
IncompleteDoc == {"version", "features", "plans"}
ValidationInputs ==
  UploadInputs \cup
    { [originalName |-> [stem |-> "draft", ext |-> ".yaml"], content |-> IncompleteDoc] }
NextValidation ==
  \/ createSession
  \/ \E s \in SessionIds, f \in ValidationInputs : uploadFile(s, f)
  \/ \E s \in SessionIds : getSessionFiles(s)
  \/ \E s \in SessionIds : deleteSession(s)
SpecValidation == InitWith(ServerController) /\ [][NextValidation]_vars

\* The chat handler beside sendMessage: uploads, messages with or without
\* an attached file, explicit pricing contexts and deletions.
Attachments == {<<>>} \cup {<<f>> : f \in UploadInputs}
NextChat ==
  \/ createSession
  \/ \E s \in SessionIds, f \in UploadInputs : uploadFile(s, f)
  \/ \E s \in SessionIds, f \in FileIds \cup {0} : updatePricingContext(s, f)
  \/ \E s \in SessionIds : clearPricingContext(s)
  \/ \E s \in SessionIds : deleteSession(s)
  \/ \E t \in 1..OneTurn, s \in SessionIds : sendMessage(t, s)
  \/ \E t \in 1..OneTurn : firstPassText(t, TRUE)
  \/ \E t \in 1..OneTurn, s \in SessionIds, files \in Attachments : chat(t, s, files)
  \/ \E t \in 1..OneTurn : chatThrows(t)
  \/ \E t \in 1..OneTurn, c \in BOOLEAN : chatText(t, c)
  \/ \E t \in 1..OneTurn, fc \in AdviceRequests : chatToolCall(t, fc)
  \/ \E t \in 1..OneTurn : chatSecondPass(t, TRUE)
  \/ \E t \in 1..OneTurn : chatFinalPass(t, TRUE)
SpecChat == InitWith(ServerController) /\ [][NextChat]_vars

\* Every request that names a session, on stored and on unknown ids.
NextAddressed ==
  \/ createSession
  \/ \E s \in SessionIds, f \in UploadInputs : uploadFile(s, f)
  \/ \E s \in SessionIds, f \in FileIds \cup {0} : updatePricingContext(s, f)
  \/ \E s \in SessionIds : clearPricingContext(s)
  \/ \E s \in SessionIds : getPricingContextInfo(s)
  \/ \E s \in SessionIds : getSession(s)
  \/ \E s \in SessionIds : getMessages(s)
  \/ \E s \in SessionIds : getSessionFiles(s)
  \/ \E s \in SessionIds : deleteSession(s)
  \/ \E t \in 1..OneTurn, s \in SessionIds : sendMessage(t, s)
  \/ \E t \in 1..OneTurn : firstPassText(t, TRUE)
  \/ \E t \in 1..OneTurn, s \in SessionIds, files \in Attachments : chat(t, s, files)
  \/ \E t \in 1..OneTurn : chatText(t, TRUE)
SpecAddressed == InitWith(ServerController) /\ [][NextAddressed]_vars

\* Uploads of short documents and of a document whose plans section starts
\* after its sixty-line feature list, and what the session reports afterwards.
HeuristicInputs ==
  ScenarioInputs \cup
    { [originalName |-> [stem |-> "long", ext |-> ".yaml"], content |-> LongDoc] }
NextHeuristic ==
  \/ createSession
  \/ \E s \in SessionIds, f \in HeuristicInputs : uploadFile(s, f)
  \/ \E s \in SessionIds : getPricingContextInfo(s)
  \/ \E s \in SessionIds : deleteSession(s)
SpecHeuristic == InitWith(ServerController) /\ [][NextHeuristic]_vars

\* The turn protocol with sessions deleted under running turns, where every
\* external call a turn awaits (generateContent, the analysis service)
\* returns or throws: the continuation of a suspended turn is eventually run.
Returns(t) ==
  \/ firstPassThrows(t)
  \/ \E c \in BOOLEAN : firstPassText(t, c)
  \/ \E fc \in ToolRequests : firstPassToolCall(t, fc)
  \/ \E e \in Replies, d \in JobStatuses : analysisReply(t, e, d)
  \/ secondPassThrows(t)
  \/ \E c \in BOOLEAN : secondPassText(t, c)
NextTurnLive ==
  \/ NextTurn
  \/ \E s \in SessionIds : deleteSession(s)
SpecTurnLive ==
  /\ InitWith(ServerController)
  /\ [][NextTurnLive]_vars
  /\ \A t \in TurnIds : WF_vars(Returns(t))

\* One turn whose tool awaits the analysis service, while uploads, explicit
\* contexts, clears and new sessions change the session's pricingContext
\* and the service's shared model between its two passes.
StatusRequests == {fc \in ToolRequests : fc.name = "getPricingAnalysisJobStatus"}
NextPasses ==
  \/ createSession
  \/ \E s \in SessionIds, f \in UploadInputs : uploadFile(s, f)
  \/ \E s \in SessionIds, f \in FileIds \cup {0} : updatePricingContext(s, f)
  \/ \E s \in SessionIds : clearPricingContext(s)
  \/ \E t \in 1..OneTurn, s \in SessionIds : sendMessage(t, s)
  \/ \E t \in 1..OneTurn : firstPassText(t, TRUE)
  \/ \E t \in 1..OneTurn, fc \in StatusRequests : firstPassToolCall(t, fc)
  \/ \E t \in 1..OneTurn, e \in Replies, d \in JobStatuses : analysisReply(t, e, d)
  \/ \E t \in 1..OneTurn : secondPassText(t, TRUE)
SpecPasses == InitWith(ServerController) /\ [][NextPasses]_vars

\* Files that come and go under a session's pricing context: uploads,
\* attachments of chat requests, explicit contexts, clears and deletions of
\* single files.
NextDeletions ==
  \/ createSession
  \/ \E s \in SessionIds, f \in UploadInputs : uploadFile(s, f)
  \/ \E s \in SessionIds, f \in FileIds \cup {0} : updatePricingContext(s, f)
  \/ \E s \in SessionIds : clearPricingContext(s)
  \/ \E s \in SessionIds, f \in FileIds : deleteSessionFile(s, f)
  \/ \E t \in 1..OneTurn, s \in SessionIds, files \in Attachments : chat(t, s, files)
  \/ \E t \in 1..OneTurn : chatText(t, TRUE)
SpecDeletions == InitWith(ServerController) /\ [][NextDeletions]_vars

\* Sessions removed under turns in flight, by deleteSession and by a sweep
\* that runs on the controller serving the routes, and the requests that
\* name their ids afterwards.
NextRemoval ==
  \/ createSession
  \/ \E s \in SessionIds : deleteSession(s)
  \/ \E s \in SessionIds : getMessages(s)
  \/ cleanupInactiveSessions
  \/ \E d \in TickSizes : Tick(d)
  \/ \E t \in TurnIds, s \in SessionIds : sendMessage(t, s)
  \/ \E t \in TurnIds : firstPassText(t, TRUE)
SpecRemoval == InitWith(RoutesController) /\ [][NextRemoval]_vars

\* The useAsyncJob hook with the jobs it polls.
NextHook ==
  \/ \E j \in JobIds : render(j)
  \/ \E id \in JobIds : intervalFires(id)
  \/ \E j \in JobIds, s \in {"RUNNING", "COMPLETED", "FAILED"} : jobAdvances(j, s)
  \/ \E p \in PollIds, rejected \in BOOLEAN : fetchStatusSettles(p, rejected)
  \/ \E p \in PollIds : pollResumes(p)
SpecHook == InitWith(ServerController) /\ [][NextHook]_vars

\* The whole program.
Init == InitWith(ServerController)
Spec == Init /\ [][Next]_vars

\* ============================================================ properties
UserMessage(t) == Message("user", <<TextPart("user", t)>>)
\* A turn whose sendMessage request has been answered with `status`.
Answered(t, status) == turns[t].pc = "done" /\ turns[t].status = status
\* The response just sent is the answer to turn t.
JustAnswered(t, status) ==
  last.op = "sendMessage" /\ last.turn = t /\ last.status = status
\* The names of handleToolCall's switch.
DispatchTable ==
  {"getPricingSummary", "startPricingAnalysisJob", "getPricingAnalysisJobStatus",
   "initiatePricingPageTransformation", "getTransformationTaskStatus",
   "getPricingStrategyAdvice", "getAvailableTransformationFiles"}

\* C1: when a sendMessage turn whose first model response requested a tool
\* call is answered with success, the session's log is the log the turn
\* started from followed by exactly four messages: user(text),
\* model(tool-call request), tool(result of that request), model(final text).
C1_ToolTurnAppendsFourMessages ==
  \A t \in TurnIds :
    (JustAnswered(t, 200) /\ turns[t].fc # NoCall /\ Store[turns[t].sid].live) =>
      Store[turns[t].sid].messages =
        turns[t].chatHistory \o
          << Message("model", <<CallPart(turns[t].fc)>>),
             Message("tool", <<ResponsePart(turns[t].fc, turns[t].toolResult)>>),
             Message("model", <<TextPart("model", t)>>) >>

\* C5: a tool-call request whose name is not in the dispatch table never ends
\* the turn in an error response before the second model pass: the dispatcher
\* hands back a failure result that names the tool and the second pass is made.
C5_UnknownToolYieldsFailureResult ==
  \A t \in TurnIds :
    (turns[t].fc # NoCall /\ turns[t].fc.name \notin DispatchTable) =>
      /\ ~(Answered(t, 500) /\ turns[t].calls < 2)
      /\ turns[t].pc = "secondPass" =>
           (turns[t].toolResult.error /\ turns[t].toolResult.subject = turns[t].fc.name)

\* C6: two sendMessage turns on one session are serialized: once both are
\* answered with success, no message of the other turn stands between a
\* turn's user message and that turn's model message, and the turn that
\* started second saw the first turn's model message in its history.
IsModelMessageOf(m, t) ==
  m.role = "model" /\ \E i \in 1..Len(m.parts) : m.parts[i] = TextPart("model", t)
IsMessageOf(m, t) == m = UserMessage(t) \/ IsModelMessageOf(m, t)
Has(log, t) == \E i \in 1..Len(log) : IsModelMessageOf(log[i], t)
C6_TurnsOnOneSessionAreSerialized ==
  \A t, u \in TurnIds :
    (t < u /\ turns[t].sid = turns[u].sid /\ Answered(t, 200) /\ Answered(u, 200)
       /\ Store[turns[t].sid].live
       /\ Has(Store[turns[t].sid].messages, t) /\ Has(Store[turns[t].sid].messages, u)) =>
      LET log == Store[turns[t].sid].messages IN
      /\ \A i, j, k \in 1..Len(log) :
           (i < k /\ k < j) =>
             /\ ~(log[i] = UserMessage(t) /\ IsModelMessageOf(log[j], t)
                    /\ IsMessageOf(log[k], u))
             /\ ~(log[i] = UserMessage(u) /\ IsModelMessageOf(log[j], u)
                    /\ IsMessageOf(log[k], t))
      /\ Has(turns[u].chatHistory, t)

\* C7: a turn that failed (its caller got the 500 response) left nothing in
\* the session's log: the log holds no user message of that turn.
C7_FailedTurnLeavesNoMessage ==
  \A t \in TurnIds :
    (Answered(t, 500) /\ Store[turns[t].sid].live) =>
      \A i \in 1..Len(Store[turns[t].sid].messages) :
        Store[turns[t].sid].messages[i] # UserMessage(t)

\* C2: in every model invocation made for a session (first and second pass)
\* the system preamble embeds the content and file name of that session's own
\* pricingContext when it has one, and no pricing document at all when it has
\* none -- whatever other sessions uploaded, set or created meanwhile.
C2_PreambleIsTheSessionsOwnContext ==
  \A t \in TurnIds :
    turns[t].pc \in {"firstPass", "secondPass"} =>
      turns[t].modelToUse =
        IF turns[t].pricingContext = NoContext THEN NoDocument
        ELSE [content |-> turns[t].pricingContext.content,
              fileName |-> turns[t].pricingContext.fileName]

\* C3: a step of an operation addressed to session A (create, send message
\* and its continuations, upload, set or clear pricing context, info, delete)
\* leaves every other session B as stored: same messages, files, jobs and
\* pricingContext, still present, and the bytes of B's files untouched.
OthersUntouched(a) ==
  \A b \in SessionIds \ {a} :
    /\ Store'[b].live = Store[b].live
    /\ Store'[b].messages = Store[b].messages
    /\ Store'[b].files = Store[b].files
    /\ Store'[b].jobs = Store[b].jobs
    /\ Store'[b].pricingContext = Store[b].pricingContext
    /\ \A f \in FileIdsOf(Store[b].files) : disk'[f] = disk[f]
C3_OperationsOnALeaveBUnchanged ==
  [][last'.sid # 0 => OthersUntouched(last'.sid)]_vars
\* A's context was just cleared, or A was just deleted, while B holds a
\* pricing context, a file and a message of its own.
C3_Witness ==
  /\ last.op \in {"clearPricingContext", "deleteSession"}
  /\ last.status = 200
  /\ \E b \in SessionIds \ {last.sid} :
       /\ Store[b].live
       /\ Store[b].pricingContext # NoContext
       /\ Store[b].messages # <<>>

\* C4: getPricingContextInfo(S) answered immediately after a successful
\* updatePricingContext(S, D.id) reports hasContext = true and D's original
\* name; answered immediately after a successful clearPricingContext(S) it
\* reports hasContext = false.
OriginalNameOf(sessionId, fileId) ==
  LET files == Store[sessionId].files
  IN files[CHOOSE i \in 1..Len(files) : files[i].id = fileId].originalName
C4_InfoReportsTheContextJustSet ==
  [][(last'.op = "getPricingContextInfo" /\ last'.sid = last.sid /\ last.status = 200) =>
       /\ last.op = "updatePricingContext" =>
            /\ last'.status = 200
            /\ last'.hasContext
            /\ last'.fileName = OriginalNameOf(last.sid, last.fileId)
       /\ last.op = "clearPricingContext" =>
            /\ last'.status = 200
            /\ ~last'.hasContext]_vars
\* The info request reported, as the context of a session holding two files
\* of different names, the name of the second one.
C4_Witness ==
  /\ last.op = "getPricingContextInfo"
  /\ last.status = 200
  /\ last.hasContext
  /\ LET files == Store[last.sid].files IN
     /\ Len(files) = 2
     /\ files[1].originalName # files[2].originalName
     /\ last.fileName = files[2].originalName
     /\ Store[last.sid].pricingContext.fileId = files[2].id

\* C8: one sweep of cleanupInactiveSessions over a store removes exactly the
\* sessions of that store whose lastActivity is more than 24 hours before the
\* sweep and unlinks every file they own; every other session, even one
\* touched a single instant before the sweep or exactly 24 hours before it,
\* stays as it was with the bytes of its files.
C8_SweepRemovesExactlyTheExpired ==
  [][last'.op = "cleanupInactiveSessions" =>
       \A s \in SessionIds :
         LET before == sessions[scheduler][s]
             after == sessions'[scheduler][s]
         IN before.live =>
              IF now - before.lastActivity > 24 * 60 * 60 * 1000
              THEN /\ ~after.live
                   /\ s \in last'.removed
                   /\ \A f \in FileIdsOf(before.files) : disk'[f] = NoFile
              ELSE /\ after = before
                   /\ s \notin last'.removed
                   /\ \A f \in FileIdsOf(before.files) : disk'[f] = disk[f]]_vars
\* A sweep has just removed a session that owned a file, and left in the
\* store a session touched one instant earlier, its file still on disk.
C8_Witness ==
  /\ last.op = "cleanupInactiveSessions"
  /\ last.removed # {}
  /\ last.unlinked # {}
  /\ \A f \in last.unlinked : disk[f] = NoFile
  /\ \E s \in SessionIds :
       /\ sessions[scheduler][s].live
       /\ now - sessions[scheduler][s].lastActivity = 1
       /\ sessions[scheduler][s].files # <<>>
       /\ \A f \in FileIdsOf(sessions[scheduler][s].files) : disk[f] # NoFile

C10_ScheduledSweepReachesRouteSessions ==
  last.op = "cleanupInactiveSessions" =>
    \A s \in SessionIds :
      Store[s].live => now - Store[s].lastActivity <= 24 * 60 * 60 * 1000

\* The documents of a task that the uploads directory holds.
DocumentsOf(taskId) ==
  {f \in FileIds :
     /\ disk[f].bytes # NoBytes
     /\ Len(disk[f].nameParts) >= 2
     /\ SubSeq(disk[f].nameParts, 1, Len(disk[f].nameParts) - 1) = taskId}
\* Turn t polled with the tool `name` and its handler has returned.
Polled(t, name) ==
  turns[t].fc.name = name /\ turns[t].pc \in {"secondPass", "done"}

\* C11: two polls in a row of one job, or of one transformation task, to
\* which the collaborator reported the same status both times return the same
\* status, and the second persists no further file: a task polled twice as
\* COMPLETED has one copy of its document in the uploads directory.
C11_PollingIsIdempotent ==
  \A t, u \in TurnIds :
    (t < u /\ ~turns[t].toolResult.error /\ ~turns[u].toolResult.error
       /\ turns[t].toolResult.data = turns[u].toolResult.data) =>
      /\ (Polled(t, "getPricingAnalysisJobStatus") /\ Polled(u, "getPricingAnalysisJobStatus")
            /\ turns[t].fc.arguments.jobId = turns[u].fc.arguments.jobId) =>
           turns[t].toolResult = turns[u].toolResult
      /\ (Polled(t, "getTransformationTaskStatus") /\ Polled(u, "getTransformationTaskStatus")
            /\ turns[t].fc.arguments.taskId = turns[u].fc.arguments.taskId
            /\ turns[t].toolResult.data = "COMPLETED") =>
           Cardinality(DocumentsOf(turns[t].fc.arguments.taskId)) <= 1

\* The preamble the next model invocation made for a session will embed:
\* generateResponse's choice of modelToUse.
NextPreamble(sessionId) ==
  IF Store[sessionId].pricingContext # NoContext
  THEN getSystemPrompt(Store[sessionId].pricingContext.content,
                       Store[sessionId].pricingContext.fileName)
  ELSE model[RoutesController]
\* Turn t's getTransformationTaskStatus has just returned, having seen the
\* task completed and saved its document.
SavedDocument(t) ==
  /\ Polled(t, "getTransformationTaskStatus")
  /\ turns[t].pc = "secondPass"
  /\ turns[t].toolResult.data = "COMPLETED"
  /\ turns[t].toolResult.savedFile # 0
  /\ Store[turns[t].sid].live

\* C12: when getTransformationTaskStatus, called in a turn of session S, has
\* seen the task completed and saved its document, S's pricingContext is that
\* document; and the result says contextAutoUpdated = true only if the
\* preamble of S's next model invocation embeds that document.
C12_CompletedTransformationBecomesContext ==
  \A t \in TurnIds :
    SavedDocument(t) =>
      LET document == disk[turns[t].toolResult.savedFile].bytes IN
      /\ Store[turns[t].sid].pricingContext.content = document
      /\ turns[t].toolResult.contextAutoUpdated =>
           NextPreamble(turns[t].sid).content = document

\* C13: when getTransformationTaskStatus, called in a turn of session S, has
\* seen the task completed, the document it wrote is a file of S and of no
\* other session, so that deleting S deletes it: every document of the
\* transformation pool is listed in exactly one live session's files.
C13_CompletedTransformationIsAFileOfTheSession ==
  /\ \A t \in TurnIds :
       SavedDocument(t) =>
         /\ turns[t].toolResult.savedFile \in FileIdsOf(Store[turns[t].sid].files)
         /\ \A s \in SessionIds \ {turns[t].sid} :
              turns[t].toolResult.savedFile \notin FileIdsOf(Store[s].files)
  /\ \A f \in getTransformationFiles(disk) :
       \E s \in SessionIds : Store[s].live /\ f \in FileIdsOf(Store[s].files)

\* The pc values at which a turn awaits a collaborator's HTTP reply.
CollaboratorApis == AnalysisApis \cup {"startTransformation", "getTransformationStatus"}

required(name) ==
  CASE name = "getPricingSummary" -> {"pricingFileId"}
    [] name = "startPricingAnalysisJob" -> {"pricingFileId", "operation", "solver"}
    [] name = "getPricingAnalysisJobStatus" -> {"jobId"}
    [] name = "initiatePricingPageTransformation" -> {"url"}
    [] name = "getTransformationTaskStatus" -> {"taskId"}
    [] name = "getPricingStrategyAdvice" -> {"topic"}
    [] OTHER -> {}
\* The required arguments a request leaves out.
Missing(fc) == {a \in required(fc.name) : fc.arguments[a] = NoArgs[a]}
\* The failure names the argument `a`.
Names(result, a) ==
  \/ result.subject = a
  \/ result.subject = "pricingFileId, operation, and solver"
       /\ a \in {"pricingFileId", "operation", "solver"}

\* C15: a request for a tool of the dispatch table that lacks a required
\* argument never reaches a collaborator and never ends the turn in an error
\* response before the second pass; the result handed to the second pass is a
\* failure that names a missing argument.
C15_MissingArgumentYieldsFailureResult ==
  \A t \in TurnIds :
    (turns[t].fc.name \in DispatchTable /\ Missing(turns[t].fc) # {}) =>
      /\ turns[t].pc \notin CollaboratorApis
      /\ ~(Answered(t, 500) /\ turns[t].calls < 2)
      /\ turns[t].calls = 2 =>
           /\ turns[t].toolResult.error
           /\ \E a \in Missing(turns[t].fc) : Names(turns[t].toolResult, a)

\* The tools that take a pricingFileId.
FileTools == {"getPricingSummary", "startPricingAnalysisJob"}
NotFound == "File not found in current session or transformation files"
\* Turn t's handler went on with the file `path`: it is the file handed to
\* the collaborator, and the failure "not found" was not returned.
WentOnWith(t, path) ==
  /\ turns'[t].toolResult.message # NotFound
  /\ turns'[t].pc \in AnalysisApis => turns'[t].path = path

\* C16: the step that dispatches getPricingSummary or startPricingAnalysisJob
\* with a pricingFileId resolves the id in the calling session's files first
\* (also when a transformation output has the same id), otherwise in the pool
\* of saved transformation outputs, each known by the file id it was saved
\* under; an id in neither gives the failure "not found" with no collaborator
\* contacted.
C16_FileIdResolvedInSessionThenPool ==
  [][\A t \in TurnIds :
       (turns[t].pc = "firstPass" /\ turns'[t].pc # "firstPass"
          /\ turns'[t].fc.name \in FileTools /\ Missing(turns'[t].fc) = {}) =>
         LET id == turns'[t].fc.arguments.pricingFileId IN
         IF id \in FileIdsOf(turns[t].files) THEN WentOnWith(t, id)
         ELSE IF id \in getTransformationFiles(disk) THEN WentOnWith(t, id)
         ELSE /\ turns'[t].pc = "secondPass"
              /\ turns'[t].toolResult.error
              /\ turns'[t].toolResult.message = NotFound]_vars

\* C17: within one sendMessage turn at most one tool call is executed and
\* the model is invoked at most twice: of several requests in the first
\* response only the first is executed, and the step that receives a second
\* response holding a request ends the turn without dispatching it (no
\* further model invocation, no collaborator awaited, no file or task state
\* changed).
C17_AtMostOneToolCallPerTurn ==
  [][\A t \in TurnIds :
       /\ Len(turns'[t].executed) <= 1
       /\ turns'[t].calls <= 2
       /\ turns'[t].requested # <<>> => turns'[t].executed = <<turns'[t].requested[1]>>
       /\ (turns'[t].second # NoCall /\ turns[t].second = NoCall) =>
            /\ turns'[t].pc = "done"
            /\ turns'[t].status = 200
            /\ turns'[t].calls = turns[t].calls
            /\ turns'[t].executed = turns[t].executed
            /\ turns'[t].toolResult = turns[t].toolResult
            /\ <<disk', taskUrlMap', model'>> = <<disk, taskUrlMap, model>>]_vars
\* A turn has ended whose first response held two requests, of which the
\* first was executed, and whose second response held a request again.
C17_Witness ==
  \E t \in TurnIds :
    /\ Answered(t, 200)
    /\ Len(turns[t].requested) = 2
    /\ turns[t].executed = <<turns[t].requested[1]>>
    /\ turns[t].requested[2] # turns[t].requested[1]
    /\ turns[t].second # NoCall
    /\ turns[t].calls = 2

\* C18: when a sendMessage turn whose first model response is non-empty
\* free text without a tool call is answered, the session's log is the log
\* the turn started from followed by exactly two messages: user(text) and
\* model(text) holding that response.
C18_TextTurnAppendsTwoMessages ==
  \A t \in TurnIds :
    (JustAnswered(t, 200) /\ turns[t].fc = NoCall /\ last.content) =>
      LET chatHistory == turns[t].chatHistory IN
      /\ chatHistory[Len(chatHistory)] = UserMessage(t)
      /\ Store[turns[t].sid].messages =
           Append(chatHistory, Message("model", <<TextPart("model", t)>>))

\* The session file an uploadFile request just stored.
Uploaded == LET files == Store[last.sid].files IN files[Len(files)]
JustUploaded == last.op = "uploadFile" /\ last.status = 201

\* C19: when a file uploaded to session S passes the pricing-document
\* heuristic, S's pricingContext is that file (content, original name and
\* file id), and what getPricingContextInfo reports of S is hasContext = true
\* with that file's name.
C19_UploadedPricingFileBecomesContext ==
  (JustUploaded /\ isPricingYamlFile(Uploaded.originalName, disk[last.fileId].bytes)) =>
    /\ Store[last.sid].pricingContext = contextOf(Uploaded, disk[last.fileId].bytes)
    /\ pricingContextInfo(Store[last.sid]) =
         [hasContext |-> TRUE, fileName |-> Uploaded.originalName]

\* C20: uploading pricing.yaml whose content holds the keys saasName, plans
\* and version and no other marker makes the heuristic fire: the upload
\* hands the document to the model as its pricing context.
C20_ScenarioDocumentFiresHeuristic ==
  (/\ JustUploaded
   /\ Uploaded.originalName = [stem |-> "pricing", ext |-> ".yaml"]
   /\ disk[last.fileId].bytes = ScenarioDoc) =>
    /\ isPricingYamlFile(Uploaded.originalName, disk[last.fileId].bytes)
    /\ model[RoutesController] = getSystemPrompt(ScenarioDoc, Uploaded.originalName)

\* C22: updatePricingContext(S, fileId) on a stored session S with a fileId
\* that is not among S's files, or whose bytes are gone from the uploads
\* directory, answers 404 and leaves S (its pricingContext and lastActivity
\* included) as it was; otherwise it answers 200 and S's context is, whole,
\* the content, original name and id of that one file.
C22_SetContextFailsWholeOrReplacesWhole ==
  [][(last'.op = "updatePricingContext" /\ last'.fileId # 0 /\ Store[last'.sid].live) =>
       LET S == last'.sid
           fileId == last'.fileId
           found == fileId \in FileIdsOf(Store[S].files)
           stored == disk[fileId].bytes # NoBytes
       IN
       IF found /\ stored
       THEN /\ last'.status = 200
            /\ Store'[S].pricingContext =
                 [content |-> disk[fileId].bytes,
                  fileName |-> OriginalNameOf(S, fileId),
                  fileId |-> fileId]
       ELSE /\ last'.status = 404
            /\ Store'[S] = Store[S]]_vars
\* A set was just refused for a file of the session whose bytes are gone,
\* and the context an earlier set gave the session, from another file, is
\* still in place.
C22_Witness ==
  /\ last.op = "updatePricingContext"
  /\ last.status = 404
  /\ Store[last.sid].live
  /\ last.fileId \in FileIdsOf(Store[last.sid].files)
  /\ disk[last.fileId].bytes = NoBytes
  /\ Store[last.sid].pricingContext # NoContext
  /\ Store[last.sid].pricingContext.fileId # last.fileId

C25_CreateSessionStartsClean ==
  [][last'.op = "createSession" =>
       LET id == last'.sid IN
       /\ last'.status = 200
       /\ id \notin 1..nextSession
       /\ ~Store[id].live
       /\ Store'[id] = [live |-> TRUE, lastActivity |-> now, messages |-> <<>>,
                       files |-> <<>>, jobs |-> <<>>, pricingContext |-> NoContext]
       /\ \A b \in SessionIds \ {id} : Store'[b] = Store[b]
       /\ model'[RoutesController] = NoDocument]_vars
\* A session was just created while another session holds a message, a
\* pricing context and an uploaded pricing document, the document the
\* shared model carried until this creation.
C25_Witness ==
  /\ last.op = "createSession"
  /\ model[RoutesController] = NoDocument
  /\ Store[last.sid].live
  /\ \E b \in SessionIds \ {last.sid} :
       /\ Store[b].live
       /\ Store[b].messages # <<>>
       /\ Store[b].pricingContext # NoContext
       /\ \E i \in 1..Len(Store[b].files) :
            isPricingYamlFile(Store[b].files[i].originalName,
                              disk[Store[b].files[i].id].bytes)

\* The requests that only read a session.
ReadOps == {"getSession", "getMessages", "getSessionFiles", "getPricingContextInfo"}
\* The requests that are addressed to one session.
SessionOps ==
  ReadOps \cup {"uploadFile", "updatePricingContext", "clearPricingContext"}

\* C26: every request addressed to a stored session, the read-only ones
\* included, that is served leaves the session's lastActivity at the time of
\* the request, so that the sweep measures inactivity from the last request
\* of any kind.
C26_EveryRequestTouchesLastActivity ==
  [][(last'.op \in SessionOps /\ last'.status \in {200, 201}) =>
       Store'[last'.sid].lastActivity = now]_vars

\* C28: an upload is accepted, and its file attached to the session, exactly
\* when the document holds the required top-level keys saasName and plans: a
\* file attached by an upload that reported success is a valid document, and
\* every file a session lists is one.
C28_UploadRejectsDocumentWithoutRequiredKeys ==
  /\ JustUploaded => validateYamlFile(disk[last.fileId].bytes)
  /\ (last.op = "getSessionFiles" /\ last.status = 200) =>
       \A i \in 1..Len(last.files) :
         disk[last.files[i].id].bytes # NoBytes =>
           validateYamlFile(disk[last.files[i].id].bytes)

\* The tools that start a long-running operation of a collaborator.
StartTools == {"startPricingAnalysisJob", "initiatePricingPageTransformation"}
Started(t) ==
  /\ turns[t].pc \in {"secondPass", "done"}
  /\ turns[t].fc.name \in StartTools
  /\ ~turns[t].toolResult.error
  /\ turns[t].toolResult.message \in
       {SuccessOf("startAnalysisJob"), SuccessOf("startTransformation")}

\* C29: once startPricingAnalysisJob or initiatePricingPageTransformation has
\* succeeded in a turn of session S, S's jobs hold a job in a non-terminal
\* status (pending or running), which the active-job count reported for S
\* counts.
C29_StartedJobIsRecordedOnTheSession ==
  \A t \in TurnIds :
    (Started(t) /\ Store[turns[t].sid].live) =>
      /\ Store[turns[t].sid].jobs # <<>>
      /\ Cardinality(activeJobs(Store[turns[t].sid])) >= 1

\* A name the dispatcher routes to a handler (its switch has a case for it).
Dispatchable(name) ==
  handleToolCall(Call(name, NoArgs), <<>>, disk).result.message # "Unknown function call"
ToolNames == {fc.name : fc \in ToolRequests \cup CompleteRequests}

\* C30: the names published to the model in the tool catalogue are the names
\* the dispatcher accepts, seven in all with getAvailableTransformationFiles:
\* every catalogued tool is dispatchable and every dispatchable tool is in
\* the catalogue.
C30_CatalogueEqualsDispatchTable ==
  /\ \A name \in ToolNames : name \in getToolDefinitions <=> Dispatchable(name)
  /\ "getAvailableTransformationFiles" \in getToolDefinitions
  /\ Cardinality(getToolDefinitions) = 7

\* The requests that set or clear a session's context explicitly, or end
\* the session.
ExplicitOps == {"updatePricingContext", "clearPricingContext", "deleteSession"}
\* The turns of session S that issue their first model invocation in this step.
Begins(t, S) ==
  turns[t].pc = "idle" /\ turns'[t].sid = S /\ turns'[t].calls = 1

\* C21: right after updatePricingContext(S, D) has succeeded, a step that is
\* no explicit set or clear on S (and not S's deletion) leaves S's
\* pricingContext at D, and a turn of S begun by that step invokes the model
\* with D's content and name embedded: an attached or uploaded file that
\* passes the heuristic does not replace D.  The explicit set itself
\* succeeds for any stored file of S, whether or not it passes the heuristic.
C21_ExplicitContextWinsOverHeuristic ==
  [][/\ (/\ last.op = "updatePricingContext" /\ last.status = 200
         /\ ~(last'.op \in ExplicitOps /\ last'.sid = last.sid)) =>
          LET S == last.sid
              D == Store[S].pricingContext
          IN
          /\ Store'[S].pricingContext = D
          /\ \A t \in TurnIds :
               Begins(t, S) => turns'[t].modelToUse = getSystemPrompt(D.content, D.fileName)
     /\ (/\ last'.op = "updatePricingContext"
         /\ Store[last'.sid].live
         /\ last'.fileId \in FileIdsOf(Store[last'.sid].files)
         /\ disk[last'.fileId].bytes # NoBytes) => last'.status = 200]_vars

\* seq begins with prefix.
IsPrefix(prefix, seq) ==
  Len(prefix) <= Len(seq) /\ SubSeq(seq, 1, Len(prefix)) = prefix

\* C27: a session's message log is append-only: across every step, for every
\* session that stays in the store, the log before the step is a prefix of
\* the log after it.
C27_MessageLogIsAppendOnly ==
  [][\A s \in SessionIds :
       (Store[s].live /\ Store'[s].live) =>
         IsPrefix(Store[s].messages, Store'[s].messages)]_vars

\* The step is the arrival of a request that names a session.
Arrives ==
  \/ last'.op \in SessionOps \cup {"deleteSession"}
  \/ last'.op \in {"sendMessage", "chat"} /\ turns[last'.turn].pc = "idle"
\* The request lacks nothing but, possibly, a stored session.
WellFormed == last'.op = "updatePricingContext" => last'.fileId # 0

C31_HeuristicIsExtensionAndThreeMarkers ==
  JustUploaded =>
    LET name == Uploaded.originalName
        bytes == disk[Uploaded.id].bytes
        qualifies ==
          /\ toLowerCase(name.ext) \in {".yaml", ".yml"}
          /\ Cardinality(pricingIndicators \cap bytes) >= 3
    IN /\ isPricingYamlFile(name, bytes) = qualifies
       /\ qualifies => model[RoutesController] = getSystemPrompt(bytes, name)
       /\ ~isPricingYamlFile(name, NoBytes)

\* C32: in every history sent to the model and in every stored session log,
\* each tool-call-result part comes after a model message that holds a
\* tool-call-request part with the same tool name.
IsRequestPart(part) == part.functionCall # NoCall /\ part.functionResponse = NoResult
IsResultPart(part) == part.functionResponse # NoResult
ResultsFollowRequests(history) ==
  \A i \in 1..Len(history) : \A j \in 1..Len(history[i].parts) :
    IsResultPart(history[i].parts[j]) =>
      \E k \in 1..(i - 1) :
        /\ history[k].role = "model"
        /\ \E l \in 1..Len(history[k].parts) :
             /\ IsRequestPart(history[k].parts[l])
             /\ history[k].parts[l].functionCall.name =
                  history[i].parts[j].functionCall.name
C32_ToolResultFollowsItsRequest ==
  /\ \A t \in TurnIds : ResultsFollowRequests(turns[t].sent)
  /\ \A s \in SessionIds : Store[s].live => ResultsFollowRequests(Store[s].messages)
\* The second pass of a turn is under way on a session whose log already
\* holds the request of an earlier tool turn: the history sent ends with the
\* model's request and the tool's result.
C32_Witness ==
  \E t \in TurnIds :
    LET sent == turns[t].sent IN
    /\ turns[t].pc = "secondPass"
    /\ Len(sent) >= 4
    /\ sent[Len(sent)].role = "function"
    /\ IsResultPart(sent[Len(sent)].parts[1])
    /\ \E k \in 1..(Len(sent) - 2) :
         \E l \in 1..Len(sent[k].parts) : IsRequestPart(sent[k].parts[l])

\* C33: every sendMessage request eventually sends exactly one response to
\* its caller, a success or an error envelope, never none and never two,
\* provided each external call made during the turn returns or throws.
C33_EveryTurnIsAnsweredOnce ==
  /\ [](\A t \in TurnIds : turns[t].responses <= 1)
  /\ \A t \in TurnIds :
       (turns[t].pc # "idle") ~> (turns[t].pc = "done" /\ turns[t].responses = 1)
\* Both turns are answered: one with success after the collaborator failed,
\* the other with an error after a generateContent call rejected.
C33_Witness ==
  \E t, u \in TurnIds :
    /\ Answered(t, 200) /\ turns[t].calls = 2 /\ turns[t].toolResult.error
    /\ turns[t].responses = 1
    /\ Answered(u, 500) /\ turns[u].responses = 1

\* C34: within one sendMessage turn the second model pass is made on the
\* same model configuration (preamble) as the first pass, even when the
\* session's pricingContext or the shared model was changed by another
\* request between the two passes.
C34_SecondPassUsesFirstPassModel ==
  \A t \in TurnIds :
    Len(turns[t].used) >= 2 => turns[t].used[2] = turns[t].used[1]
\* The second pass is under way although the session's context and the
\* shared model would now both give another preamble than the first pass had.
C34_Witness ==
  \E t \in TurnIds :
    LET session == Store[turns[t].sid] IN
    /\ turns[t].pc = "secondPass"
    /\ Len(turns[t].used) = 2
    /\ session.live
    /\ session.pricingContext # NoContext
    /\ getSystemPrompt(session.pricingContext.content, session.pricingContext.fileName)
         # turns[t].used[1]
    /\ model[RoutesController] # turns[t].used[1]

\* C35: the fileId that getTransformationTaskStatus reports in savedFile on
\* completion is the id under which that same file is found in the
\* transformation pool by getPricingSummary and startPricingAnalysisJob, for
\* every task id, task ids with an underscore included.
C35_SavedFileIsFoundUnderItsId ==
  \A t \in TurnIds :
    LET savedFile == turns[t].toolResult.savedFile IN
    (savedFile # 0 /\ disk[savedFile].bytes # NoBytes) =>
      resolveFile(savedFile, <<>>, disk) = [path |-> savedFile, source |-> "transformation"]

\* C36: whenever a session has a pricingContext, the context's fileId is the
\* id of a file that is in that session's files now, after any sequence of
\* uploads, context updates, context clears and file deletions.
C36_ContextFileIsAFileOfTheSession ==
  \A s \in SessionIds :
    (Store[s].live /\ Store[s].pricingContext # NoContext) =>
      Store[s].pricingContext.fileId \in FileIdsOf(Store[s].files)

\* A session id that createSession handed out and the store no longer holds.
Removed(s) == s <= nextSession /\ ~Store[s].live

\* C37: once deleteSession or the sweep has removed a session from the store,
\* every request on that id that arrives afterwards is answered 404 and the
\* id never reappears in the store, even when a turn that was in flight at
\* the removal completes later and appends to the removed session object.
C37_RemovedSessionStaysRemoved ==
  [][\A s \in SessionIds :
       Removed(s) =>
         /\ ~Store'[s].live
         /\ (Arrives /\ WellFormed /\ last'.sid = s) => last'.status = 404]_vars
\* A turn has just been answered with success on a session that was removed
\* while the turn awaited the model.
C37_Witness ==
  \E t \in TurnIds : JustAnswered(t, 200) /\ Removed(turns[t].sid)

\* A turn of the chat handler, while it runs and when it has just been answered.
ChatTurn(t) ==
  \/ turns[t].pc \in {"chatFirstPass", "chatSecondPass", "chatFinalPass"}
  \/ last.op = "chat" /\ last.turn = t
\* How often the call fc was handed to the dispatcher in turn t.
Executions(t, fc) ==
  Cardinality({j \in 1..Len(turns[t].executed) : turns[t].executed[j] = fc})

\* C38: in a turn of the chat handler each tool call the model requested is
\* executed exactly once, and the model is invoked at most twice.
C38_ChatExecutesEachCallOnce ==
  \A t \in TurnIds :
    ChatTurn(t) =>
      /\ turns[t].calls <= 2
      /\ \A i \in 1..Len(turns[t].requested) :
           Executions(t, turns[t].requested[i]) <= 1
      /\ (last.op = "chat" /\ last.turn = t /\ last.status = 200) =>
           \A i \in 1..Len(turns[t].requested) :
             Executions(t, turns[t].requested[i]) = 1

\* The statuses at which a job has ended.
Ended == {"COMPLETED", "FAILED"}
\* This step runs poll() after the await of call p.
Handles(p) == hook.polls[p].state = "settled" /\ hook'.polls[p].state = "handled"
\* This step makes a fetchStatus call for jobId.
Polls(jobId) ==
  \E p \in PollIds :
    hook.polls[p].state = "none" /\ hook'.polls[p].state = "sent"
      /\ hook'.polls[p].jobId = jobId

\* C39: in the useAsyncJob hook, once the status of the current jobId is
\* COMPLETED or FAILED, no later poll response turns it back to PENDING or
\* RUNNING and no further poll is started for that jobId; and a poll response
\* that belongs to a previous jobId never changes the status shown for the
\* current jobId.
C39_PollingEndsAndStaleResponsesAreIgnored ==
  [][/\ (hook.status \in Ended /\ hook'.jobId = hook.jobId) =>
          /\ hook'.status \notin {"PENDING", "RUNNING"}
          /\ ~Polls(hook.jobId)
     /\ \A p \in PollIds :
          (Handles(p) /\ hook.polls[p].jobId # hook.jobId) =>
            hook'.status = hook.status]_vars

====
